---- MODULE Spec2Model ----
(***************************************************************************)
(* Model of the image-similarity search of lib/db.ts together with the     *)
(* text-similarity engine of lib/text-recognition.ts.                      *)
(*                                                                         *)
(* Numbers.  The program computes with IEEE doubles; the model computes in *)
(* fixed point on integers:                                                *)
(*   - every score (cosine, euclidean, ..., similarity) is an integer      *)
(*     number of thousandths, so 0.5 is 500 and 1.0 is 1000;               *)
(*   - thresholds are integers in units of 1/100000, so 0.45 is 45000     *)
(*     and every midpoint, 0.8*top and 0.9*threshold is exact;             *)
(*   - un-normalised weights are integers in millionths; a normalised      *)
(*     weight is the pair (weight, totalWeight);                           *)
(*   - vector components are integers in fifths, so that <<3, 4>> and      *)
(*     <<5, 0>> are exact unit vectors;                                    *)
(*   - visual properties and OCR confidences are thousandths.              *)
(* Divisions and square roots round towards minus infinity.                *)
(*                                                                         *)
(* JavaScript's undefined is the empty tuple, a defined value x is <<x>>.  *)
(* Strings are tuples of one-character strings.                            *)
(***************************************************************************)
EXTENDS Integers, Sequences, FiniteSets, TLC

VARIABLES store, nextId, ops, search, fn

vars == <<store, nextId, ops, search, fn>>

----------------------------------------------------------------------------
(* JavaScript values *)

Undefined == <<>>

Some(x) == <<x>>

Defined(o) == o # <<>>

\* JS truthiness of an optional number: undefined and 0 are falsy
TruthyNum(o) == Defined(o) /\ o[1] # 0

Min(a, b) == IF a <= b THEN a ELSE b

Max(a, b) == IF a >= b THEN a ELSE b

Abs(a) == IF a >= 0 THEN a ELSE 0 - a

RECURSIVE SumSeq(_)
SumSeq(s) == IF s = <<>> THEN 0 ELSE Head(s) + SumSeq(Tail(s))

\* F applied to the value of x: x is evaluated once, as the argument of a call
\* and the right-hand side of a const declaration are
Apply(F(_), x) == CHOOSE y \in { F(v) : v \in {x} } : TRUE

RECURSIVE ISqrtIn(_, _, _)
ISqrtIn(n, lo, hi) ==
  IF lo >= hi THEN lo
  ELSE Apply(LAMBDA mid : IF mid * mid <= n THEN ISqrtIn(n, mid, hi)
                          ELSE ISqrtIn(n, lo, mid - 1),
             (lo + hi + 1) \div 2)

\* Math.sqrt on a non-negative integer, rounded down
ISqrt(n) == ISqrtIn(n, 0, 46340)

----------------------------------------------------------------------------
(* Vector metric library *)

\* the length check that opens cosineSimilarity, euclideanDistance and
\* manhattanDistance: the call throws when it holds
DimensionMismatch(a, b) == Len(a) # Len(b)

cosineSimilarity_ZeroIsItself(a, b) ==
  LET dotProduct == SumSeq([j \in 1..Len(a) |-> a[j] * b[j]])
      normA == ISqrt(SumSeq([j \in 1..Len(a) |-> a[j] * a[j]]) * 1000000)
      normB == ISqrt(SumSeq([j \in 1..Len(b) |-> b[j] * b[j]]) * 1000000)
  IN IF normA = 0 /\ normB = 0 THEN 1000
     ELSE IF normA = 0 \/ normB = 0 THEN 0
     ELSE (dotProduct * 1000000) \div ((normA * normB) \div 1000)

\* dot / (|a| |b|) in thousandths; 0 when a norm is 0
cosineSimilarity(a, b) ==
  LET dotProduct == SumSeq([j \in 1..Len(a) |-> a[j] * b[j]])
      normA == ISqrt(SumSeq([j \in 1..Len(a) |-> a[j] * a[j]]) * 1000000)
      normB == ISqrt(SumSeq([j \in 1..Len(b) |-> b[j] * b[j]]) * 1000000)
  IN IF normA = 0 \/ normB = 0 THEN 0
     ELSE (dotProduct * 1000000) \div ((normA * normB) \div 1000)

\* |a - b| in thousandths (components are fifths)
euclideanDistance(a, b) ==
  ISqrt(SumSeq([j \in 1..Len(a) |-> (a[j] - b[j]) * (a[j] - b[j])]) * 1000000) \div 5

\* sum |a_j - b_j| in thousandths (components are fifths)
manhattanDistance(a, b) ==
  SumSeq([j \in 1..Len(a) |-> Abs(a[j] - b[j])]) * 200

----------------------------------------------------------------------------
(* Visual metadata comparator *)

IsDigit(c) == c \in {"0", "1", "2", "3", "4", "5", "6", "7", "8", "9"}

DigitValue(c) ==
  CASE c = "0" -> 0 [] c = "1" -> 1 [] c = "2" -> 2 [] c = "3" -> 3
    [] c = "4" -> 4 [] c = "5" -> 5 [] c = "6" -> 6 [] c = "7" -> 7
    [] c = "8" -> 8 [] c = "9" -> 9

DigitChar(d) == <<"0", "1", "2", "3", "4", "5", "6", "7", "8", "9">>[d + 1]

RECURSIVE ParseInt(_)
ParseInt(ds) ==
  IF ds = <<>> THEN 0
  ELSE ParseInt(SubSeq(ds, 1, Len(ds) - 1)) * 10 + DigitValue(ds[Len(ds)])

RECURSIVE Decimal(_)
Decimal(n) ==
  IF n < 10 THEN <<DigitChar(n)>> ELSE Decimal(n \div 10) \o <<DigitChar(n % 10)>>

\* `rgb(${quantizedR},${quantizedG},${quantizedB})`
RgbString(c) ==
  <<"r", "g", "b", "(">> \o Decimal(c[1]) \o <<",">> \o Decimal(c[2])
    \o <<",">> \o Decimal(c[3]) \o <<")">>

\* s[i..j-1] is a non-empty run of digits
DigitRun(s, i, j) == i < j /\ j <= Len(s) + 1 /\ \A k \in i..(j - 1) : IsDigit(s[k])

\* "$" in a pattern without the m flag: the position is the end of the input
AtEnd(s, i) == i = Len(s) + 1

\* rgb.match(/rgb$$(\d+),(\d+),(\d+)$$/): the set of <<from, to>> triples of
\* the three groups over all matches.  The pattern is: the letters rgb, two
\* end-of-input assertions, digits, a comma, digits, a comma, digits, two
\* end-of-input assertions.
RgbMatches(s) ==
  { m \in UNION { { <<p, e1, e2, Len(s) + 1>> : e1 \in 1..(Len(s) + 1), e2 \in 1..(Len(s) + 1) } :
                  p \in { q \in 1..Len(s) :
                            /\ q + 2 <= Len(s)
                            /\ s[q] = "r" /\ s[q + 1] = "g" /\ s[q + 2] = "b"
                            /\ AtEnd(s, q + 3) } } :
      /\ DigitRun(s, m[1] + 3, m[2])
      /\ m[2] <= Len(s) /\ s[m[2]] = ","
      /\ DigitRun(s, m[2] + 1, m[3])
      /\ m[3] <= Len(s) /\ s[m[3]] = ","
      /\ DigitRun(s, m[3] + 1, m[4])
      /\ AtEnd(s, m[4]) }

parseRgb(rgb) ==
  LET ms == RgbMatches(rgb)
  IN IF ms = {} THEN <<0, 0, 0>>
     ELSE LET m == CHOOSE x \in ms : \A y \in ms : x[1] <= y[1]
          IN << ParseInt(SubSeq(rgb, m[1] + 3, m[2] - 1)),
                ParseInt(SubSeq(rgb, m[2] + 1, m[3] - 1)),
                ParseInt(SubSeq(rgb, m[3] + 1, m[4] - 1)) >>

\* RGB distance / 441.67 in thousandths
colorDistance(color1, color2) ==
  LET rgb1 == parseRgb(color1)
      rgb2 == parseRgb(color2)
      rDiff == rgb1[1] - rgb2[1]
      gDiff == rgb1[2] - rgb2[2]
      bDiff == rgb1[3] - rgb2[3]
  IN (ISqrt((rDiff * rDiff + gDiff * gDiff + bDiff * bDiff) * 10000) * 1000) \div 44167

RECURSIVE MinOver(_, _)
\* Math.min folded over a list, starting from init
MinOver(init, s) == IF s = <<>> THEN init ELSE MinOver(Min(init, Head(s)), Tail(s))

colorSimilarity_NoEmptyCheck(colorsA, colorsB) ==
  IF ~Defined(colorsA) \/ ~Defined(colorsB) THEN 500
  ELSE LET topColorsA == SubSeq(colorsA[1], 1, Min(3, Len(colorsA[1])))
           topColorsB == SubSeq(colorsB[1], 1, Min(3, Len(colorsB[1])))
           bestMatch(colorA) ==
             MinOver(1000, [k \in 1..Len(topColorsB) |-> colorDistance(colorA, topColorsB[k])])
           totalSimilarity ==
             SumSeq([i \in 1..Len(topColorsA) |-> 1000 - bestMatch(topColorsA[i])])
       IN totalSimilarity \div Max(1, Len(topColorsA))

\* colorsA, colorsB: optional lists of colour strings
colorSimilarity(colorsA, colorsB) ==
  IF ~Defined(colorsA) \/ ~Defined(colorsB) \/ Len(colorsA[1]) = 0 \/ Len(colorsB[1]) = 0
  THEN 500
  ELSE LET topColorsA == SubSeq(colorsA[1], 1, Min(3, Len(colorsA[1])))
           topColorsB == SubSeq(colorsB[1], 1, Min(3, Len(colorsB[1])))
           bestMatch(colorA) ==
             MinOver(1000, [k \in 1..Len(topColorsB) |-> colorDistance(colorA, topColorsB[k])])
           totalSimilarity ==
             SumSeq([i \in 1..Len(topColorsA) |-> 1000 - bestMatch(topColorsA[i])])
       IN totalSimilarity \div Len(topColorsA)

\* one term of visualPropertiesSimilarity: a && b ? 1 - |a - b| : 0.5
PropertySim(a, b) == IF TruthyNum(a) /\ TruthyNum(b) THEN 1000 - Abs(a[1] - b[1]) ELSE 500

visualPropertiesSimilarity_NoNeutral(propsA, propsB) ==
  IF ~Defined(propsA) \/ ~Defined(propsB) THEN 0
  ELSE LET brightnessSim == PropertySim(propsA[1].brightness, propsB[1].brightness)
           contrastSim == PropertySim(propsA[1].contrast, propsB[1].contrast)
           entropySim == PropertySim(propsA[1].colorEntropy, propsB[1].colorEntropy)
           edgeSim == PropertySim(propsA[1].edgeDensity, propsB[1].edgeDensity)
       IN (brightnessSim * 300 + contrastSim * 200 + entropySim * 250 + edgeSim * 250) \div 1000

\* propsA, propsB: optional metadata objects
visualPropertiesSimilarity(propsA, propsB) ==
  IF ~Defined(propsA) \/ ~Defined(propsB) THEN 500
  ELSE LET brightnessSim == PropertySim(propsA[1].brightness, propsB[1].brightness)
           contrastSim == PropertySim(propsA[1].contrast, propsB[1].contrast)
           entropySim == PropertySim(propsA[1].colorEntropy, propsB[1].colorEntropy)
           edgeSim == PropertySim(propsA[1].edgeDensity, propsB[1].edgeDensity)
       IN (brightnessSim * 300 + contrastSim * 200 + entropySim * 250 + edgeSim * 250) \div 1000

----------------------------------------------------------------------------
(* Text similarity engine *)

stopWords ==
  { <<"t", "h", "e">>,
    <<"a", "n", "d">>,
    <<"a">>,
    <<"a", "n">>,
    <<"i", "n">>,
    <<"o", "n">>,
    <<"a", "t">>,
    <<"t", "o">>,
    <<"f", "o", "r">>,
    <<"o", "f">>,
    <<"w", "i", "t", "h">>,
    <<"b", "y">>,
    <<"a", "s">>,
    <<"i", "s">>,
    <<"a", "r", "e">>,
    <<"w", "a", "s">>,
    <<"w", "e", "r", "e">>,
    <<"b", "e">>,
    <<"b", "e", "e", "n">>,
    <<"b", "e", "i", "n", "g">>,
    <<"h", "a", "v", "e">>,
    <<"h", "a", "s">>,
    <<"h", "a", "d">>,
    <<"d", "o">>,
    <<"d", "o", "e", "s">>,
    <<"d", "i", "d">>,
    <<"b", "u", "t">>,
    <<"o", "r">>,
    <<"i", "f">>,
    <<"t", "h", "e", "n">>,
    <<"e", "l", "s", "e">>,
    <<"w", "h", "e", "n">>,
    <<"u", "p">>,
    <<"d", "o", "w", "n">>,
    <<"o", "u", "t">>,
    <<"i", "n">>,
    <<"t", "h", "a", "t">>,
    <<"t", "h", "i", "s">>,
    <<"t", "h", "e", "s", "e">>,
    <<"t", "h", "o", "s", "e">> }

\* the characters of the class that hasSpecial tests; the class contains
\* the range from ")" to "_", hence the digits and the capitals.  The
\* backquote character is written "backquote".
SpecialChars ==
  { ".", ",", ";", ":", "!", "?", "@", "#", "$", "%", "&", "*",
    "(", ")", "+", "-", "/", "0", "1", "2", "3", "4", "5", "6",
    "7", "8", "9", "<", "=", ">", "A", "B", "C", "D", "E", "F",
    "G", "H", "I", "J", "K", "L", "M", "N", "O", "P", "Q", "R",
    "S", "T", "U", "V", "W", "X", "Y", "Z", "[", "\\", "]", "^",
    "_", "{", "}", "|", "'", "\"", "backquote", " " }

\* word -> {confidence: max confidence, count} over the words of length >= 2
WordsMap(words) ==
  LET kept == { i \in 1..Len(words) : Len(words[i].text) >= 2 }
      keys == { words[i].text : i \in kept }
  IN [ w \in keys |->
         LET occ == { i \in kept : words[i].text = w }
         IN [ confidence |-> CHOOSE c \in { words[i].confidence : i \in occ } :
                                \A i \in occ : words[i].confidence <= c,
              count |-> Cardinality(occ) ] ]

\* importance of a word in thousandths
calculateWordImportance(word) ==
  LET lengthImportance == Min(1000, Len(word) * 200)
      contentImportance == IF word \in stopWords THEN 300 ELSE 1000
      hasNumbers == \E i \in 1..Len(word) : IsDigit(word[i])
      hasSpecial == \E i \in 1..Len(word) : word[i] \in SpecialChars
      specialImportance == IF hasNumbers \/ hasSpecial THEN 1200 ELSE 1000
  IN (((lengthImportance * contentImportance) \div 1000) * specialImportance) \div 1000

RECURSIVE SumOver(_, _)
\* sum of f[x] over the members x of the finite set S
SumOver(f, S) ==
  IF S = {} THEN 0
  ELSE LET x == CHOOSE y \in S : TRUE IN f[x] + SumOver(f, S \ {x})

\* intersection weight, in millionths
IntersectionWeight(wordsMapA, wordsMapB) ==
  LET shared == DOMAIN wordsMapA \cap DOMAIN wordsMapB
  IN SumOver([ w \in shared |->
                 ((wordsMapA[w].confidence * wordsMapB[w].confidence
                     * calculateWordImportance(w)) \div 1000)
                   * Min(wordsMapA[w].count, wordsMapB[w].count) ], shared)

\* union weight, in millionths
UnionWeight(wordsMapA, wordsMapB) ==
  LET onlyB == DOMAIN wordsMapB \ DOMAIN wordsMapA
  IN SumOver([ w \in DOMAIN wordsMapA |->
                 wordsMapA[w].confidence * wordsMapA[w].count * calculateWordImportance(w) ],
             DOMAIN wordsMapA)
       + SumOver([ w \in onlyB |->
                 wordsMapB[w].confidence * wordsMapB[w].count * calculateWordImportance(w) ],
             onlyB)

\* intersection / union in thousandths, 0 when the union is 0
weightedJaccardSim(wordsMapA, wordsMapB) ==
  LET intersectionWeight == IntersectionWeight(wordsMapA, wordsMapB)
      unionWeight == UnionWeight(wordsMapA, wordsMapB)
  IN IF unionWeight > 0
     THEN IF unionWeight \div 10 > 0
          THEN ((intersectionWeight \div 10) * 1000) \div (unionWeight \div 10)
          ELSE (intersectionWeight * 1000) \div unionWeight
     ELSE 0

IsSpace(c) == c \in {" ", "\n", "\t"}

RECURSIVE CollapseSpaces(_)
\* text.replace(/\s+/g, " ")
CollapseSpaces(t) ==
  IF t = <<>> THEN <<>>
  ELSE IF IsSpace(Head(t))
       THEN IF Len(t) >= 2 /\ IsSpace(t[2]) THEN CollapseSpaces(Tail(t))
            ELSE <<" ">> \o CollapseSpaces(Tail(t))
       ELSE <<Head(t)>> \o CollapseSpaces(Tail(t))

RECURSIVE TrimLeft(_)
TrimLeft(t) == IF t # <<>> /\ IsSpace(Head(t)) THEN TrimLeft(Tail(t)) ELSE t

RECURSIVE TrimRight(_)
TrimRight(t) ==
  IF t # <<>> /\ IsSpace(t[Len(t)]) THEN TrimRight(SubSeq(t, 1, Len(t) - 1)) ELSE t

Trim(t) == TrimRight(TrimLeft(t))

RECURSIVE SplitOnSpace(_, _)
\* t.split(" "), cur being the piece under construction
SplitOnSpace(t, cur) ==
  IF t = <<>> THEN <<cur>>
  ELSE IF Head(t) = " " THEN <<cur>> \o SplitOnSpace(Tail(t), <<>>)
       ELSE SplitOnSpace(Tail(t), Append(cur, Head(t)))

\* phrase bonus in thousandths
calculatePhraseMatches(textA, textB) ==
  IF textA = <<>> \/ textB = <<>> THEN 0
  ELSE LET wordsA == SplitOnSpace(Trim(CollapseSpaces(textA)), <<>>)
           wordsB == SplitOnSpace(Trim(CollapseSpaces(textB)), <<>>)
           lengths == 2..Min(6, Min(Len(wordsA), Len(wordsB)))
           phrasesA(n) == { SubSeq(wordsA, i, i + n - 1) : i \in 1..(Len(wordsA) - n + 1) }
           hits(n) == { i \in 1..(Len(wordsB) - n + 1) : SubSeq(wordsB, i, i + n - 1) \in phrasesA(n) }
           matched == { n \in lengths : hits(n) # {} }
           totalPhraseMatches == SumOver([ n \in lengths |-> Cardinality(hits(n)) ], lengths)
           weightedPhraseScore == SumOver([ n \in lengths |-> Cardinality(hits(n)) * n * 100 ], lengths)
           maxPhraseLength == IF matched = {} THEN 0
                              ELSE CHOOSE n \in matched : \A k \in matched : k <= n
           phraseMatchScore == IF totalPhraseMatches > 0
                               THEN weightedPhraseScore + maxPhraseLength * 100 ELSE 0
       IN IF Len(wordsA) < 2 \/ Len(wordsB) < 2 THEN 0 ELSE Min(1000, phraseMatchScore)

RECURSIVE LevRow(_, _, _, _)
\* one row of the matrix: acc holds the columns filled so far
LevRow(acc, prev, ch, b) ==
  IF Len(acc) = Len(b) + 1 THEN acc
  ELSE LET j == Len(acc)
           cost == IF ch = b[j] THEN 0 ELSE 1
       IN LevRow(Append(acc, Min(Min(prev[j + 1] + 1, acc[j] + 1), prev[j] + cost)), prev, ch, b)

RECURSIVE LevRows(_, _, _, _)
LevRows(prev, a, i, b) ==
  IF i > Len(a) THEN prev[Len(b) + 1]
  ELSE LevRows(LevRow(<<i>>, prev, a[i], b), a, i + 1, b)

levenshteinDistance(a, b) == LevRows([j \in 1..(Len(b) + 1) |-> j - 1], a, 1, b)

\* fuzzy score in thousandths
calculateFuzzyMatches(wordsMapA, wordsMapB) ==
  LET pairs == { p \in (DOMAIN wordsMapA) \X (DOMAIN wordsMapB) :
                   Len(p[1]) >= 4 /\ Len(p[2]) >= 4 /\ p[1] # p[2] }
      distance(p) == levenshteinDistance(p[1], p[2])
      maxLength(p) == Max(Len(p[1]), Len(p[2]))
      similarity(p) == 1000 - (distance(p) * 1000) \div maxLength(p)
      \* similarity > 0.75, decided exactly
      counted == { p \in pairs : 4 * distance(p) < maxLength(p) }
      matchWeight(p) ==
        (((((similarity(p) * wordsMapA[p[1]].confidence) \div 1000)
             * wordsMapB[p[2]].confidence) \div 1000)
           * calculateWordImportance(p[1])) \div 1000
      fuzzyMatchScore == SumOver([ p \in counted |-> matchWeight(p) ], counted)
  IN Min(1000, fuzzyMatchScore \div Max(1, Cardinality(DOMAIN wordsMapA)))

\* textA, textB: optional OCR results
calculateTextSimilarity(textA, textB) ==
  IF \/ ~Defined(textA) \/ ~Defined(textB)
     \/ textA[1].text = <<>> \/ textB[1].text = <<>>
     \/ ~Defined(textA[1].words) \/ ~Defined(textB[1].words)
     \/ Len(textA[1].words[1]) = 0 \/ Len(textB[1].words[1]) = 0
  THEN 0
  ELSE LET wordsMapA == WordsMap(textA[1].words[1])
           wordsMapB == WordsMap(textB[1].words[1])
           jaccard == weightedJaccardSim(wordsMapA, wordsMapB)
           phraseBonus == calculatePhraseMatches(textA[1].text, textB[1].text)
           fuzzyMatchScore == calculateFuzzyMatches(wordsMapA, wordsMapB)
       IN (jaccard * 500 + phraseBonus * 300 + fuzzyMatchScore * 200) \div 1000

----------------------------------------------------------------------------
(* Characteristic classifier and adaptive weight selector *)

\* image: a stored record; the flags are the truthiness of the JS values
analyzeImageCharacteristics(image, queryMetadata) ==
  LET md == image.metadata
      tc == image.textContent
  IN [ isTextHeavy |->
         /\ Defined(tc) /\ tc[1].text # <<>>
         /\ Defined(tc[1].words) /\ Len(tc[1].words[1]) > 5
         /\ tc[1].confidence > 600,
       isColorful |->
         IF Defined(md) /\ TruthyNum(md[1].colorEntropy) THEN md[1].colorEntropy[1] > 700 ELSE FALSE,
       isHighContrast |->
         IF Defined(md) /\ TruthyNum(md[1].contrast) THEN md[1].contrast[1] > 600 ELSE FALSE,
       isDetailed |->
         IF Defined(md) /\ TruthyNum(md[1].edgeDensity) THEN md[1].edgeDensity[1] > 500 ELSE FALSE ]

TotalWeight_BeforeText(weights) ==
  weights.cosine + weights.euclidean + weights.manhattan + weights.color
    + weights.visualProps + 50000

\* Object.values(weights).reduce((sum, w) => sum + w, 0)
TotalWeight(weights) ==
  weights.cosine + weights.euclidean + weights.manhattan + weights.color
    + weights.visualProps + weights.text

getAdaptiveWeights_DetailedFirst(characteristics, hasSignificantText, textSim, cosSim, euclideanSim, colorSim) ==
  LET base == [ cosine |-> 300000, euclidean |-> 250000, manhattan |-> 150000,
                color |-> 200000, visualProps |-> 50000, text |-> 50000 ]
      textWeight == 200000 + textSim * 300
      w1 == IF characteristics.isTextHeavy \/ hasSignificantText
            THEN [ cosine |-> 250000 - textWeight \div 10,
                   euclidean |-> 200000 - textWeight \div 20,
                   manhattan |-> 100000, color |-> 150000,
                   visualProps |-> 50000, text |-> textWeight ]
            ELSE base
      w2 == IF characteristics.isDetailed
            THEN [ w1 EXCEPT !.cosine = Min(350000, (w1.cosine * 6) \div 5),
                             !.euclidean = Min(300000, (w1.euclidean * 6) \div 5),
                             !.color = w1.color - 50000 ]
            ELSE w1
      w3 == IF characteristics.isColorful
            THEN [ w2 EXCEPT !.color = Min(300000, (w2.color * 3) \div 2),
                             !.cosine = w2.cosine - 50000 ]
            ELSE w2
      w4 == IF cosSim > 800
            THEN [ w3 EXCEPT !.cosine = Min(400000, (w3.cosine * 6) \div 5) ]
            ELSE w3
      w5 == IF colorSim > 800
            THEN [ w4 EXCEPT !.color = Min(300000, (w4.color * 6) \div 5) ]
            ELSE w4
  IN [ cosine |-> w5.cosine, euclidean |-> w5.euclidean, manhattan |-> w5.manhattan,
       color |-> w5.color, visualProps |-> w5.visualProps, text |-> w5.text,
       totalWeight |-> TotalWeight(w5) ]

\* The six un-normalised weights in millionths together with totalWeight;
\* the weight the function returns for a metric is weight / totalWeight.
getAdaptiveWeights(characteristics, hasSignificantText, textSim, cosSim, euclideanSim, colorSim) ==
  LET base == [ cosine |-> 300000, euclidean |-> 250000, manhattan |-> 150000,
                color |-> 200000, visualProps |-> 50000, text |-> 50000 ]
      textWeight == 200000 + textSim * 300
      w1 == IF characteristics.isTextHeavy \/ hasSignificantText
            THEN [ cosine |-> 250000 - textWeight \div 10,
                   euclidean |-> 200000 - textWeight \div 20,
                   manhattan |-> 100000, color |-> 150000,
                   visualProps |-> 50000, text |-> textWeight ]
            ELSE base
      w2 == IF characteristics.isColorful
            THEN [ w1 EXCEPT !.color = Min(300000, (w1.color * 3) \div 2),
                             !.cosine = w1.cosine - 50000 ]
            ELSE w1
      w3 == IF characteristics.isDetailed
            THEN [ w2 EXCEPT !.cosine = Min(350000, (w2.cosine * 6) \div 5),
                             !.euclidean = Min(300000, (w2.euclidean * 6) \div 5),
                             !.color = w2.color - 50000 ]
            ELSE w2
      w4 == IF cosSim > 800
            THEN [ w3 EXCEPT !.cosine = Min(400000, (w3.cosine * 6) \div 5) ]
            ELSE w3
      w5 == IF colorSim > 800
            THEN [ w4 EXCEPT !.color = Min(300000, (w4.color * 6) \div 5) ]
            ELSE w4
      totalWeight == TotalWeight(w5)
  IN [ cosine |-> w5.cosine, euclidean |-> w5.euclidean, manhattan |-> w5.manhattan,
       color |-> w5.color, visualProps |-> w5.visualProps, text |-> w5.text,
       totalWeight |-> totalWeight ]

----------------------------------------------------------------------------
(* Similarity fusion engine *)

\* Math.sqrt(2) in millionths
maxPossibleDist == 1414213

PenaltyFactor_Smallest(cosSim, euclideanSim, colorSim, hasSignificantText, textSim) ==
  Min(IF cosSim < 400 /\ euclideanSim < 400 THEN 800 ELSE 1000,
      Min(IF colorSim < 300 THEN 900 ELSE 1000,
          IF hasSignificantText /\ textSim < 200 THEN 850 ELSE 1000))

\* the product of the penalty factors, in thousandths
PenaltyFactor(cosSim, euclideanSim, colorSim, hasSignificantText, textSim) ==
  LET p1 == IF cosSim < 400 /\ euclideanSim < 400 THEN 800 ELSE 1000
      p2 == IF colorSim < 300 THEN (p1 * 900) \div 1000 ELSE p1
      p3 == IF hasSignificantText /\ textSim < 200 THEN (p2 * 850) \div 1000 ELSE p2
  IN p3

\* the six metrics that the body of batch.map computes for one image whose
\* embedding has the query's length; textContent is the optional query text
ImageMetrics(image, embedding, queryMetadata, textContent) ==
  LET euclideanDist == euclideanDistance(embedding, image.embedding)
      manhattanDist == manhattanDistance(embedding, image.embedding)
  IN [ cosine |-> cosineSimilarity(embedding, image.embedding),
       euclidean |-> 1000 - (euclideanDist * 1000000) \div maxPossibleDist,
       manhattan |-> 1000 - manhattanDist \div (2 * Len(embedding)),
       color |-> IF Defined(image.metadata) /\ Defined(image.metadata[1].dominantColors)
                 THEN colorSimilarity(queryMetadata.dominantColors,
                                      image.metadata[1].dominantColors)
                 ELSE 500,
       visualProps |-> visualPropertiesSimilarity(Some(queryMetadata), image.metadata),
       text |-> IF /\ Defined(textContent) /\ textContent[1].text # <<>>
                   /\ Defined(image.textContent) /\ image.textContent[1].text # <<>>
                THEN calculateTextSimilarity(textContent, image.textContent)
                ELSE 0 ]

ImageFlags_AnyLongText(image, queryMetadata, textContent, textSim) ==
  [ hasSignificantText |->
      /\ Defined(textContent) /\ Defined(textContent[1].words)
      /\ Len(textContent[1].words[1]) > 3
      /\ Defined(image.textContent) /\ Defined(image.textContent[1].words)
      /\ Len(image.textContent[1].words[1]) > 3,
    characteristics |-> analyzeImageCharacteristics(image, queryMetadata) ]

\* hasSignificantText and imageCharacteristics of one image
ImageFlags(image, queryMetadata, textContent, textSim) ==
  [ hasSignificantText |->
      /\ Defined(textContent) /\ Defined(textContent[1].words)
      /\ Len(textContent[1].words[1]) > 3
      /\ Defined(image.textContent) /\ Defined(image.textContent[1].words)
      /\ Len(image.textContent[1].words[1]) > 3
      /\ textSim > 200,
    characteristics |-> analyzeImageCharacteristics(image, queryMetadata) ]

\* combinedSim: the weighted sum of the metrics times the penalty factor
CombinedSimilarity(metrics, weights, penaltyFactor) ==
  LET weighted == metrics.cosine * weights.cosine + metrics.euclidean * weights.euclidean
                    + metrics.manhattan * weights.manhattan + metrics.color * weights.color
                    + metrics.visualProps * weights.visualProps + metrics.text * weights.text
  IN ((weighted \div weights.totalWeight) * penaltyFactor) \div 1000

\* what the body of batch.map adds to one image
ImageScore(image, embedding, queryMetadata, textContent) ==
  Apply(LAMBDA metrics :
    Apply(LAMBDA flags :
      Apply(LAMBDA weights :
              [ similarity |->
                  CombinedSimilarity(metrics, weights,
                    PenaltyFactor(metrics.cosine, metrics.euclidean, metrics.color,
                                  flags.hasSignificantText, metrics.text)),
                metrics |-> metrics,
                hasSignificantText |-> flags.hasSignificantText,
                characteristics |-> flags.characteristics ],
            getAdaptiveWeights(flags.characteristics, flags.hasSignificantText,
                               metrics.text, metrics.cosine, metrics.euclidean,
                               metrics.color)),
      ImageFlags(image, queryMetadata, textContent, metrics.text)),
    ImageMetrics(image, embedding, queryMetadata, textContent))

----------------------------------------------------------------------------
(* Distribution analyzer and threshold selector *)

\* the order a stable sort, largest key first, puts the positions of keys in:
\* a position comes after the positions of greater keys and after the earlier
\* positions of equal keys
DescendingOrder(keys) ==
  Apply(LAMBDA ks :
          Apply(LAMBDA rank :
                  <<>> \o [p \in 1..Len(ks) |-> CHOOSE i \in 1..Len(ks) : rank[i] = p],
                <<>> \o [i \in 1..Len(ks) |->
                           1 + Cardinality({ j \in 1..Len(ks) :
                                               ks[j] > ks[i] \/ (ks[j] = ks[i] /\ j < i) })]),
        keys)

\* [...scores].sort((a, b) => b - a)
SortDescending(scores) ==
  Apply(LAMBDA order : <<>> \o [p \in 1..Len(order) |-> scores[order[p]]],
        DescendingOrder(scores))

DistributionOf_AscendingQuartiles(scores, mean, sortedScores) ==
  LET n == Len(scores)
      variance == SumSeq([i \in 1..n |-> (scores[i] - mean) * (scores[i] - mean)]) \div n
      median == sortedScores[n \div 2 + 1]
      q1 == sortedScores[n - n \div 4]
      q3 == sortedScores[n - (n * 3) \div 4]
      gaps == SortDescending([i \in 1..(n - 1) |-> sortedScores[i] - sortedScores[i + 1]])
  IN [ mean |-> mean, stdDev |-> ISqrt(variance), median |-> median,
       quartiles |-> <<q1, median, q3>>,
       gaps |-> SubSeq(gaps, 1, Min(3, Len(gaps))) ]

\* the statistics of a non-empty list, given its mean and its sorted copy
DistributionOf(scores, mean, sortedScores) ==
  LET n == Len(scores)
      variance == SumSeq([i \in 1..n |-> (scores[i] - mean) * (scores[i] - mean)]) \div n
      median == sortedScores[n \div 2 + 1]
      q1 == sortedScores[n \div 4 + 1]
      q3 == sortedScores[(n * 3) \div 4 + 1]
      gaps == SortDescending([i \in 1..(n - 1) |-> sortedScores[i] - sortedScores[i + 1]])
  IN [ mean |-> mean, stdDev |-> ISqrt(variance), median |-> median,
       quartiles |-> <<q1, median, q3>>,
       gaps |-> SubSeq(gaps, 1, Min(3, Len(gaps))) ]

\* scores in thousandths; quartiles is <<q1, median, q3>>
analyzeDistribution(scores) ==
  IF Len(scores) = 0
  THEN [ mean |-> 0, stdDev |-> 0, median |-> 0, quartiles |-> <<0, 0, 0>>, gaps |-> <<>> ]
  ELSE Apply(LAMBDA mean :
               Apply(LAMBDA sortedScores : DistributionOf(scores, mean, sortedScores),
                     SortDescending(scores)),
             SumSeq(scores) \div Len(scores))

\* the 0-based index of the first adjacent pair whose difference is within
\* 0.001 of targetGap, or -1
findGapIndex(scores, targetGap) ==
  LET found == { i \in 0..(Len(scores) - 2) :
                   Abs(scores[i + 1] - scores[i + 2] - targetGap) < 1 }
  IN IF found = {} THEN 0 - 1 ELSE CHOOSE i \in found : \A k \in found : i <= k

ClampThreshold_None(threshold) == threshold

\* Math.min(Math.max(0.4, threshold), 0.85)
ClampThreshold(threshold) == Min(Max(40000, threshold), 85000)

determineOptimalThreshold_NoTopRule(results, stats) ==
  LET n == Len(results)
      sim(k) == results[k + 1].similarity
      gapIndex == findGapIndex([i \in 1..n |-> results[i].similarity], stats.gaps[1])
      t1 == IF /\ Len(stats.gaps) > 0 /\ stats.gaps[1] > 100
               /\ gapIndex > 0 /\ gapIndex < n - 1
            THEN Max(45000, (sim(gapIndex) + sim(gapIndex + 1)) * 50)
            ELSE 45000
      t2 == IF stats.quartiles[1] - stats.quartiles[3] > 200
            THEN Max(t1, stats.quartiles[3] * 100)
            ELSE t1
      hasTextMatches == \E i \in 1..n : results[i].metrics.text > 500
      t4 == IF hasTextMatches THEN Max(40000, (t2 * 9) \div 10) ELSE t2
      threshold == IF n >= 3 THEN t4 ELSE 45000
  IN ClampThreshold(threshold)

determineOptimalThreshold_UpperEndOfGap(results, stats) ==
  LET n == Len(results)
      sim(k) == results[k + 1].similarity
      gapIndex == findGapIndex([i \in 1..n |-> results[i].similarity], stats.gaps[1])
      t1 == IF /\ Len(stats.gaps) > 0 /\ stats.gaps[1] > 100
               /\ gapIndex >= 0 /\ gapIndex < n - 1
            THEN Max(45000, sim(gapIndex) * 100)
            ELSE 45000
      t2 == IF stats.quartiles[1] - stats.quartiles[3] > 200
            THEN Max(t1, stats.quartiles[3] * 100)
            ELSE t1
      t3 == IF sim(0) > 800 /\ n > 1 /\ sim(0) - sim(1) > 200
            THEN Max(t2, sim(0) * 80)
            ELSE t2
      hasTextMatches == \E i \in 1..n : results[i].metrics.text > 500
      t4 == IF hasTextMatches THEN Max(40000, (t3 * 9) \div 10) ELSE t3
      threshold == IF n >= 3 THEN t4 ELSE 45000
  IN ClampThreshold(threshold)

\* results: scored records in the order handed over; the threshold is in
\* units of 1/100000
determineOptimalThreshold(results, stats) ==
  LET n == Len(results)
      sim(k) == results[k + 1].similarity
      gapIndex == findGapIndex([i \in 1..n |-> results[i].similarity], stats.gaps[1])
      t1 == IF /\ Len(stats.gaps) > 0 /\ stats.gaps[1] > 100
               /\ gapIndex > 0 /\ gapIndex < n - 1
            THEN Max(45000, (sim(gapIndex) + sim(gapIndex + 1)) * 50)
            ELSE 45000
      t2 == IF stats.quartiles[1] - stats.quartiles[3] > 200
            THEN Max(t1, stats.quartiles[3] * 100)
            ELSE t1
      t3 == IF sim(0) > 800 /\ n > 1 /\ sim(0) - sim(1) > 200
            THEN Max(t2, sim(0) * 80)
            ELSE t2
      hasTextMatches == \E i \in 1..n : results[i].metrics.text > 500
      t4 == IF hasTextMatches THEN Max(40000, (t3 * 9) \div 10) ELSE t3
      threshold == IF n >= 3 THEN t4 ELSE 45000
  IN ClampThreshold(threshold)

----------------------------------------------------------------------------
(* Program constants and data *)

BATCH_SIZE == 20

\* filteredResults.slice(0, 15)
MaxResults == 15

W_hello == <<"h", "e", "l", "l", "o">>

W_world == <<"w", "o", "r", "l", "d">>

W_invoice == <<"i", "n", "v", "o", "i", "c", "e">>

W_total == <<"t", "o", "t", "a", "l">>

W_totals == <<"t", "o", "t", "a", "l", "s">>

W_amount == <<"a", "m", "o", "u", "n", "t">>

W_paid == <<"p", "a", "i", "d">>

W_cash == <<"c", "a", "s", "h">>

W_card == <<"c", "a", "r", "d">>

W_today == <<"t", "o", "d", "a", "y">>

Word(t, c) == [ text |-> t, confidence |-> c ]

RECURSIVE JoinWords(_)
\* the text of an OCR result whose words are separated by single spaces
JoinWords(ws) ==
  IF Len(ws) = 0 THEN <<>>
  ELSE IF Len(ws) = 1 THEN ws[1]
       ELSE ws[1] \o <<" ">> \o JoinWords(Tail(ws))

\* an OCR result as extractTextFromImage builds it
OcrResult(ws, conf, wordConf) ==
  Some([ text |-> JoinWords(ws), confidence |-> conf,
         words |-> Some([i \in 1..Len(ws) |-> Word(ws[i], wordConf)]) ])

TextHello == OcrResult(<<W_hello, W_world>>, 900, 900)

TextInvoice == OcrResult(<<W_invoice, W_total, W_amount, W_paid, W_cash, W_today>>, 850, 800)

TextInvoiceB == OcrResult(<<W_invoice, W_totals, W_amount, W_paid, W_card, W_today>>, 700, 900)

\* text recognised, word list absent (result.data.words was undefined)
TextNoWords == Some([ text |-> W_hello, confidence |-> 900, words |-> Undefined ])

\* An image is given by what the pixel loops of extractImageMetadata read
\* from it: the quantised colours by decreasing frequency and the four
\* statistics in thousandths.
ImgLight == [ name |-> "light", colors |-> << <<240, 240, 240>>, <<200, 160, 80>> >>,
              brightness |-> 900, contrast |-> 700, colorEntropy |-> 800, edgeDensity |-> 600 ]

ImgDark == [ name |-> "dark", colors |-> << <<0, 0, 0>>, <<40, 40, 80>>, <<0, 40, 0>>, <<80, 0, 0>> >>,
             brightness |-> 100, contrast |-> 800, colorEntropy |-> 300, edgeDensity |-> 200 ]

\* a uniformly black image: brightness, entropy and edge density are 0
ImgBlack == [ name |-> "black", colors |-> << <<0, 0, 0>> >>,
              brightness |-> 0, contrast |-> 1000, colorEntropy |-> 0, edgeDensity |-> 0 ]

\* the object {} that extractImageMetadata resolves with when the image does
\* not load, the canvas has no context or the 3 s timer fires first
EmptyMetadata ==
  [ dominantColors |-> Undefined, brightness |-> Undefined, contrast |-> Undefined,
    colorEntropy |-> Undefined, edgeDensity |-> Undefined ]

\* loaded: the image loaded and was drawn before the timeout
extractImageMetadata(dataUrl, loaded) ==
  IF loaded
  THEN [ dominantColors |->
           Some([i \in 1..Min(5, Len(dataUrl.colors)) |-> RgbString(dataUrl.colors[i])]),
         brightness |-> Some(dataUrl.brightness),
         contrast |-> Some(dataUrl.contrast),
         colorEntropy |-> Some(dataUrl.colorEntropy),
         edgeDensity |-> Some(dataUrl.edgeDensity) ]
  ELSE EmptyMetadata

ImageRecord(id, dataUrl, embedding, metadata, textContent) ==
  [ id |-> id, dataUrl |-> dataUrl, embedding |-> embedding,
    metadata |-> metadata, textContent |-> textContent ]

Images == {ImgLight, ImgDark, ImgBlack}

\* Record contents met in the store
RecInvoice(id) == ImageRecord(id, ImgLight, <<5, 0>>,
                              Some(extractImageMetadata(ImgLight, TRUE)), TextInvoice)

RecInvoiceB(id) == ImageRecord(id, ImgDark, <<4, 3>>,
                               Some(extractImageMetadata(ImgDark, TRUE)), TextInvoiceB)

\* stored while the metadata extraction failed: metadata is {}
RecNoMeta(id) == ImageRecord(id, ImgDark, <<3, 4>>, Some(EmptyMetadata), TextHello)

\* a record of the first schema: no metadata, no text
RecLegacy(id) == ImageRecord(id, ImgLight, <<0, 5>>, Undefined, Undefined)

\* a record whose colour list is empty and whose word list is absent
RecNoColors(id) ==
  ImageRecord(id, ImgBlack, <<4, 3>>,
              Some([extractImageMetadata(ImgBlack, TRUE) EXCEPT !.dominantColors = Some(<<>>)]),
              TextNoWords)

RecBlack(id) == ImageRecord(id, ImgBlack, <<-5, 0>>,
                            Some(extractImageMetadata(ImgBlack, TRUE)), Undefined)

\* a record whose embedding was produced with another vector length
RecOtherLength(id) == ImageRecord(id, ImgDark, <<3, 4, 0>>,
                                  Some(extractImageMetadata(ImgDark, TRUE)), Undefined)

Kinds == {"invoice", "invoiceB", "nometa", "legacy", "nocolors", "black", "otherlength"}

MakeRecord(kind, id) ==
  CASE kind = "invoice" -> RecInvoice(id)
    [] kind = "invoiceB" -> RecInvoiceB(id)
    [] kind = "nometa" -> RecNoMeta(id)
    [] kind = "legacy" -> RecLegacy(id)
    [] kind = "nocolors" -> RecNoColors(id)
    [] kind = "black" -> RecBlack(id)
    [] kind = "otherlength" -> RecOtherLength(id)

\* what handleSearch searches with: the embedding it generates from
\* imageToSearch and the text it extracts from it; dataUrl is imageToSearch
Queries ==
  { [ dataUrl |-> ImgLight, embedding |-> <<5, 0>>, textContent |-> Undefined ],
    [ dataUrl |-> ImgLight, embedding |-> <<5, 0>>, textContent |-> TextInvoice ],
    [ dataUrl |-> ImgDark, embedding |-> <<4, 3>>, textContent |-> TextHello ] }

\* every value extractImageMetadata can resolve with
QueryMetadatas == { extractImageMetadata(img, loaded) : img \in Images, loaded \in BOOLEAN }

\* ImageScore does not read the id
ScoreKey(image, embedding, queryMetadata, textContent) ==
  << [image EXCEPT !.id = 0], embedding, queryMetadata, textContent >>

\* ImageScore, evaluated once for each argument a run can meet
ScoreCache ==
  [ key \in { k \in { ScoreKey(MakeRecord(kind, 0), q.embedding, m, q.textContent) :
                        kind \in Kinds, q \in Queries, m \in QueryMetadatas } :
                ~DimensionMismatch(k[2], k[1].embedding) } |->
      ImageScore(key[1], key[2], key[3], key[4]) ]

\* the object batch.map returns for one image: {...image, similarity, ...}
ScoreImage(image, embedding, queryMetadata, textContent) ==
  Apply(LAMBDA score :
          [ id |-> image.id, dataUrl |-> image.dataUrl, embedding |-> image.embedding,
            metadata |-> image.metadata, textContent |-> image.textContent,
            similarity |-> score.similarity, metrics |-> score.metrics,
            hasSignificantText |-> score.hasSignificantText,
            characteristics |-> score.characteristics ],
        ScoreCache[ScoreKey(image, embedding, queryMetadata, textContent)])

----------------------------------------------------------------------------
(* Ranking orchestrator: searchImagesByEmbedding as a state machine *)

Similarities(results) == <<>> \o [i \in 1..Len(results) |-> results[i].similarity]

SortBySimilarity_Unsorted(results) == results

\* results.sort((a, b) => b.similarity - a.similarity); the sort is stable
SortBySimilarity(results) ==
  Apply(LAMBDA rs :
          Apply(LAMBDA order : <<>> \o [p \in 1..Len(rs) |-> rs[order[p]]],
                DescendingOrder(Similarities(rs))),
        results)

\* results.filter((img) => img.similarity > threshold)
FilterResults(results, threshold) ==
  LET Keep(img) == img.similarity * 100 > threshold
  IN SelectSeq(results, Keep)

TopResults_NoSlice(filteredResults) == filteredResults

\* filteredResults.slice(0, 15)
TopResults(filteredResults) ==
  SubSeq(filteredResults, 1, Min(MaxResults, Len(filteredResults)))

\* what the search does with the scored records once the last batch is in
RankResults(results) ==
  Apply(LAMBDA sorted :
          Apply(LAMBDA threshold :
                  [ threshold |-> threshold,
                    value |-> TopResults(FilterResults(sorted, threshold)) ],
                Apply(LAMBDA similarityStats : determineOptimalThreshold(sorted, similarityStats),
                      analyzeDistribution(Similarities(sorted)))),
        SortBySimilarity(results))

\* images.slice(i, i + BATCH_SIZE), i 0-based
Batch(images, i) == SubSeq(images, i + 1, Min(i + BATCH_SIZE, Len(images)))

BatchSource_Live(s) == Batch(store, search[s].next)

\* the batch the timer callback of calculateSimilarities maps over
BatchSource(s) == Batch(search[s].images, search[s].next)

\* batch.map(...) throws at the first image whose embedding has another length
BatchThrows(batch, embedding) ==
  \E k \in 1..Len(batch) : DimensionMismatch(embedding, batch[k].embedding)

ProcessBatch(batch, embedding, queryMetadata, textContent) ==
  <<>> \o [k \in 1..Len(batch) |-> ScoreImage(batch[k], embedding, queryMetadata, textContent)]

GetAllRejection_Unmodified(error) == <<error>>

\* the rejection value of getAllRequest.onerror
GetAllRejection(error) == <<"Error retrieving images: ", error>>

\* the rejection value of initDB's request.onerror, passed on by the catch
OpenRejection(error) == <<"Database error: ", error>>

Searches == {1, 2}

StoreErrors == {"UnknownError"}

\* the number of store mutations in a run
MaxOps == 1

\* readStore, reads, failed and cause are history: the store content the
\* getAll request returned, the number of getAll requests, and which request
\* failed with which error of the store.  imageToSearch is the image the
\* caller searches for; it is not an argument of the search.
IdleSearch ==
  [ pc |-> "idle", imageToSearch |-> Undefined,
    embedding |-> <<>>, textContent |-> Undefined, images |-> <<>>,
    readStore |-> <<>>, reads |-> 0, queryMetadata |-> Undefined, next |-> 0,
    results |-> <<>>, threshold |-> Undefined, value |-> <<>>, error |-> <<>>,
    failed |-> "none", cause |-> "none" ]

\* the store holds n records whose kinds cycle through pattern
StoreOf(pattern, n) ==
  [i \in 1..n |-> MakeRecord(pattern[((i - 1) % Len(pattern)) + 1], i)]

\* the shapes <<pattern, n>> of the store at the start of a run
InitialShapes ==
  { << <<"invoice">>, 0 >>,
    << <<"invoice", "nometa", "legacy">>, 2 >>,
    << <<"legacy", "invoiceB", "black">>, 3 >>,
    << <<"nocolors", "invoice", "invoice", "otherlength">>, 5 >>,
    << <<"invoice">>, MaxResults + 1 >>,
    << <<"legacy", "invoiceB", "black", "invoice", "nocolors", "nometa", "invoice">>,
       BATCH_SIZE + 1 >> }

\* the kinds a run stores anew
NewKinds == {"invoice", "legacy"}

Init ==
  /\ \E shape \in InitialShapes : store = StoreOf(shape[1], shape[2])
  /\ nextId = Len(store) + 1
  /\ ops = 0
  /\ search = [s \in Searches |-> IdleSearch]
  /\ fn = [ op |-> "none" ]

\* searchImagesByEmbedding(embedding, textContent) up to await getDBConnection()
StartSearch(s, q) ==
  /\ search[s].pc = "idle"
  /\ search' = [search EXCEPT ![s] = [ IdleSearch EXCEPT !.pc = "opening",
                                         !.imageToSearch = Some(q.dataUrl),
                                         !.embedding = q.embedding,
                                         !.textContent = q.textContent ]]
  /\ UNCHANGED <<store, nextId, ops, fn>>

\* the connection is there: the transaction is opened and getAll requested
ConnectionReady(s) ==
  /\ search[s].pc = "opening"
  /\ search' = [search EXCEPT ![s].pc = "reading", ![s].reads = @ + 1]
  /\ UNCHANGED <<store, nextId, ops, fn>>

\* initDB rejects; the catch of the executor rejects with that value
ConnectionFails(s, error) ==
  /\ search[s].pc = "opening"
  /\ search' = [search EXCEPT ![s].pc = "rejected", ![s].error = OpenRejection(error),
                              ![s].failed = "open", ![s].cause = error]
  /\ UNCHANGED <<store, nextId, ops, fn>>

GetAllSuccess_NoEmptyCheck(s) ==
  /\ search[s].pc = "reading"
  /\ search' = [search EXCEPT ![s].images = store, ![s].readStore = store,
                              ![s].pc = "metadata"]
  /\ UNCHANGED <<store, nextId, ops, fn>>

\* getAllRequest.onsuccess up to the first await
GetAllSuccess(s) ==
  /\ search[s].pc = "reading"
  /\ search' = [search EXCEPT ![s].images = store,
                              ![s].readStore = store,
                              ![s].pc = IF Len(store) = 0 THEN "resolved" ELSE "metadata"]
  /\ UNCHANGED <<store, nextId, ops, fn>>

\* getAllRequest.onerror
GetAllError(s, error) ==
  /\ search[s].pc = "reading"
  /\ search' = [search EXCEPT ![s].pc = "rejected", ![s].error = GetAllRejection(error),
                              ![s].failed = "getAll", ![s].cause = error]
  /\ UNCHANGED <<store, nextId, ops, fn>>

\* extractImageMetadata(images[0].dataUrl) resolves; calculateSimilarities
\* starts and sets the timer of the first batch
MetadataExtracted(s, loaded) ==
  /\ search[s].pc = "metadata"
  /\ search' = [search EXCEPT
       ![s].queryMetadata = Some(extractImageMetadata(search[s].images[1].dataUrl, loaded)),
       ![s].pc = "scoring", ![s].next = 0, ![s].results = <<>>]
  /\ UNCHANGED <<store, nextId, ops, fn>>

\* the timer callback of a batch that is not the last one
ScoreBatch(s) ==
  /\ search[s].pc = "scoring"
  /\ ~BatchThrows(BatchSource(s), search[s].embedding)
  /\ search[s].next + BATCH_SIZE < Len(search[s].images)
  /\ search' = [search EXCEPT
       ![s].results = @ \o ProcessBatch(BatchSource(s), search[s].embedding,
                                        search[s].queryMetadata[1], search[s].textContent),
       ![s].next = @ + BATCH_SIZE]
  /\ UNCHANGED <<store, nextId, ops, fn>>

\* the timer callback of the last batch and, in the same turn of the event
\* loop, the sort, the threshold, the filter and resolve
ScoreLastBatch(s) ==
  /\ search[s].pc = "scoring"
  /\ ~BatchThrows(BatchSource(s), search[s].embedding)
  /\ search[s].next + BATCH_SIZE >= Len(search[s].images)
  /\ \E results \in { search[s].results \o
                         ProcessBatch(BatchSource(s), search[s].embedding,
                                      search[s].queryMetadata[1], search[s].textContent) } :
       \E ranked \in { RankResults(results) } :
         search' = [search EXCEPT
           ![s].results = results,
           ![s].next = @ + BATCH_SIZE,
           ![s].threshold = Some(ranked.threshold),
           ![s].value = ranked.value,
           ![s].pc = "resolved"]
  /\ UNCHANGED <<store, nextId, ops, fn>>

\* the timer callback throws out of cosineSimilarity: the batch promise is
\* never settled, no continuation of the search is left
ScoreBatchThrows(s) ==
  /\ search[s].pc = "scoring"
  /\ BatchThrows(BatchSource(s), search[s].embedding)
  /\ search' = [search EXCEPT ![s].pc = "hung"]
  /\ UNCHANGED <<store, nextId, ops, fn>>

\* storeImage: store.add of the record with its extracted metadata
StoreImage(kind) ==
  /\ ops < MaxOps
  /\ store' = Append(store, MakeRecord(kind, nextId))
  /\ nextId' = nextId + 1
  /\ ops' = ops + 1
  /\ UNCHANGED <<search, fn>>

\* deleteImage(id)
DeleteImage(id) ==
  /\ ops < MaxOps
  /\ \E k \in 1..Len(store) : store[k].id = id
  /\ store' = SelectSeq(store, LAMBDA r : r.id # id)
  /\ ops' = ops + 1
  /\ UNCHANGED <<nextId, search, fn>>

\* clearAllImages
ClearAllImages ==
  /\ ops < MaxOps
  /\ store' = <<>>
  /\ ops' = ops + 1
  /\ UNCHANGED <<nextId, search, fn>>

Next ==
  \/ \E s \in Searches, q \in Queries : StartSearch(s, q)
  \/ \E s \in Searches : ConnectionReady(s)
  \/ \E s \in Searches, e \in StoreErrors : ConnectionFails(s, e)
  \/ \E s \in Searches : GetAllSuccess(s)
  \/ \E s \in Searches, e \in StoreErrors : GetAllError(s, e)
  \/ \E s \in Searches, loaded \in BOOLEAN : MetadataExtracted(s, loaded)
  \/ \E s \in Searches : ScoreBatch(s)
  \/ \E s \in Searches : ScoreLastBatch(s)
  \/ \E s \in Searches : ScoreBatchThrows(s)
  \/ \E kind \in NewKinds : StoreImage(kind)
  \/ \E id \in {1, Len(store)} : DeleteImage(id)
  \/ ClearAllImages

Spec == Init /\ [][Next]_vars

----------------------------------------------------------------------------
(* Properties of the search *)

\* the steps of search s
SearchStep(s) ==
  \/ \E q \in Queries : StartSearch(s, q)
  \/ ConnectionReady(s)
  \/ \E e \in StoreErrors : ConnectionFails(s, e)
  \/ GetAllSuccess(s)
  \/ \E e \in StoreErrors : GetAllError(s, e)
  \/ \E loaded \in BOOLEAN : MetadataExtracted(s, loaded)
  \/ ScoreBatch(s)
  \/ ScoreLastBatch(s)
  \/ ScoreBatchThrows(s)

\* the getAll request of s has delivered its records
HasRead(s) == search[s].pc \in {"metadata", "scoring", "hung", "resolved"}

Settled(s) == search[s].pc \in {"resolved", "rejected"}

\* the scored records of s above the threshold of s
Passing(s) == { k \in 1..Len(search[s].results) :
                  search[s].results[k].similarity * 100 > search[s].threshold[1] }

HasMismatch(s) ==
  \E k \in 1..Len(search[s].readStore) :
    DimensionMismatch(search[s].embedding, search[s].readStore[k].embedding)

\* C1: a resolved search returns at most 15 entries, and the similarity of
\* every returned entry is strictly greater than the threshold that
\* determineOptimalThreshold computed in that call.
C1_AtMost15AboveThreshold ==
  \A s \in Searches :
    search[s].pc = "resolved" =>
      /\ Len(search[s].value) <= 15
      /\ search[s].value # <<>> =>
           /\ Defined(search[s].threshold)
           /\ \A k \in 1..Len(search[s].value) :
                search[s].value[k].similarity * 100 > search[s].threshold[1]

\* more than 15 scored records pass the threshold and 15 are returned
C1_Witness ==
  \E s \in Searches :
    search[s].pc = "resolved" /\ Cardinality(Passing(s)) > 15 /\ Len(search[s].value) = 15

\* C4: the returned list is in non-increasing order of similarity and holds
\* exactly the highest-scoring scored records that pass the threshold.
C4_SortedTopPassing ==
  \A s \in Searches :
    search[s].pc = "resolved" /\ search[s].results # <<>> =>
      LET value == search[s].value
          ids == { value[k].id : k \in 1..Len(value) }
      IN /\ \A k \in 1..(Len(value) - 1) : value[k].similarity >= value[k + 1].similarity
         /\ Len(value) = Min(15, Cardinality(Passing(s)))
         /\ Cardinality(ids) = Len(value)
         /\ \A k \in 1..Len(value) :
              \E j \in Passing(s) : search[s].results[j] = value[k]
         /\ \A j \in Passing(s) :
              search[s].results[j].id \notin ids =>
                \A k \in 1..Len(value) : value[k].similarity >= search[s].results[j].similarity

\* the scored records are not in order of similarity, the result has entries
\* of different similarity, and a passing record is left out
C4_Witness ==
  \E s \in Searches :
    /\ search[s].pc = "resolved"
    /\ \E i, j \in 1..Len(search[s].results) :
         i < j /\ search[s].results[i].similarity < search[s].results[j].similarity
    /\ Len(search[s].value) >= 2
    /\ search[s].value[1].similarity > search[s].value[Len(search[s].value)].similarity

\* C5: a search whose getAll read returns no record resolves with the empty
\* list and no error, and it neither derives metadata, nor scores, nor computes
\* a threshold.
C5_EmptyStoreResolvesEmpty ==
  \A s \in Searches :
    HasRead(s) /\ search[s].readStore = <<>> =>
      /\ search[s].pc = "resolved"
      /\ search[s].value = <<>>
      /\ search[s].error = <<>>
      /\ ~Defined(search[s].queryMetadata)
      /\ search[s].results = <<>>
      /\ ~Defined(search[s].threshold)

C5_Witness ==
  \E s \in Searches : search[s].pc = "resolved" /\ search[s].readStore = <<>>

\* C6: a search over a store that holds a record whose vector length differs
\* from the query's always ends with a defined outcome: as long as its promise
\* is pending, a step of the search is left that goes on towards resolving or
\* rejecting it.
C6_MismatchSearchSettles ==
  \A s \in Searches :
    HasRead(s) /\ HasMismatch(s) => Settled(s) \/ ENABLED SearchStep(s)

\* C7 as stated: when the getAll read fails, the search rejects with the
\* error of the store itself, and the read is requested once.
C7_StoreErrorUnmodified ==
  \A s \in Searches :
    search[s].failed = "getAll" =>
      /\ search[s].pc = "rejected"
      /\ search[s].error = <<search[s].cause>>
      /\ search[s].reads = 1

\* C7 amended: when the getAll read fails, the search rejects with the text
\* "Error retrieving images: " followed by the error of the store; it does not
\* resolve with a list and the read is requested once.
C7_StoreErrorWrapped ==
  \A s \in Searches :
    search[s].failed = "getAll" =>
      /\ search[s].pc = "rejected"
      /\ search[s].error = <<"Error retrieving images: ", search[s].cause>>
      /\ search[s].value = <<>>
      /\ search[s].reads = 1

C7_Witness ==
  \E s \in Searches : search[s].failed = "getAll" /\ search[s].pc = "rejected"

\* C8: a search scores exactly the records its one getAll read returned, in
\* that order, and returns the ranking of those scores, whatever is stored,
\* deleted or cleared afterwards and whatever the other search does.
C8_ScoresTheSnapshot ==
  \A s \in Searches :
    search[s].pc \in {"scoring", "hung", "resolved"} /\ search[s].readStore # <<>> =>
      LET scored == SubSeq(search[s].readStore, 1,
                           Min(search[s].next, Len(search[s].readStore)))
          expected == ProcessBatch(scored, search[s].embedding,
                                   search[s].queryMetadata[1], search[s].textContent)
      IN /\ search[s].reads = 1
         /\ search[s].results = expected
         /\ search[s].pc = "resolved" =>
              /\ Len(scored) = Len(search[s].readStore)
              /\ search[s].value = RankResults(expected).value

\* the first batch is scored, the second is not, the store is no longer the
\* one that was read, and the other search runs
C8_Witness ==
  \E s, t \in Searches :
    /\ s # t
    /\ search[s].pc = "scoring" /\ search[s].next = BATCH_SIZE
    /\ store # search[s].readStore
    /\ search[t].pc \in {"metadata", "scoring"}

\* the lists compared by the colour metric of a scored record
QueryColors(s) == search[s].queryMetadata[1].dominantColors

RecordColors(r) == IF Defined(r.metadata) THEN r.metadata[1].dominantColors ELSE Undefined

NoColors(colors) == ~Defined(colors) \/ colors[1] = <<>>

\* C9: the colour metric of a scored record is exactly 0.5 whenever the colour
\* list on the query side or the colour list of the record is empty or missing.
C9_NeutralColor ==
  \A s \in Searches :
    \A k \in 1..Len(search[s].results) :
      NoColors(QueryColors(s)) \/ NoColors(RecordColors(search[s].results[k])) =>
        search[s].results[k].metrics.color = 500

\* a record with an empty colour list was scored against colours
C9_Witness ==
  \E s \in Searches :
    \E k \in 1..Len(search[s].results) :
      /\ ~NoColors(QueryColors(s))
      /\ RecordColors(search[s].results[k]) = Some(<<>>)

LacksMetadata(r) == ~Defined(r.metadata) \/ r.metadata = Some(EmptyMetadata)

LacksText(r) == ~Defined(r.textContent) \/ r.textContent[1].text = <<>>

\* C10: a record without visual metadata or without OCR text does not make a
\* search fail: a search whose vectors all have the query's length is, after
\* its read, neither rejected nor left without a continuation, and its next
\* batch is scored without an exception; the colour and
\* visualProps metrics of a record without metadata are 0.5 and the text
\* metric is 0 when the record or the query has no text.
C10_MissingDataIsNeutral ==
  \A s \in Searches :
    /\ HasRead(s) /\ ~HasMismatch(s) =>
         /\ search[s].pc \in {"metadata", "scoring", "resolved"}
         /\ search[s].pc = "scoring" => ~BatchThrows(BatchSource(s), search[s].embedding)
    /\ \A k \in 1..Len(search[s].results) :
         LET r == search[s].results[k]
         IN /\ LacksMetadata(r) => r.metrics.color = 500 /\ r.metrics.visualProps = 500
            /\ LacksText(r) \/ ~Defined(search[s].textContent) => r.metrics.text = 0

\* a search with a text query has resolved over records without metadata and
\* without text
C10_Witness ==
  \E s \in Searches :
    /\ search[s].pc = "resolved" /\ Defined(search[s].textContent)
    /\ \E k \in 1..Len(search[s].results) :
         ~Defined(search[s].results[k].metadata) /\ ~Defined(search[s].results[k].textContent)
    /\ \E k \in 1..Len(search[s].results) :
         search[s].results[k].metadata = Some(EmptyMetadata)

\* C15: the metadata on the query side of the colour and visual-properties
\* comparisons of a search is what extractImageMetadata yields for the image
\* searched for, so two searches over one store with different query images
\* that both load compare against different query metadata.
C15_QueryMetadataFromQueryImage ==
  \A s \in Searches :
    Defined(search[s].queryMetadata) =>
      \E loaded \in BOOLEAN :
        search[s].queryMetadata[1] = extractImageMetadata(search[s].imageToSearch[1], loaded)

----------------------------------------------------------------------------
(* The threshold selector and the weight function on enumerated arguments *)

\* no search and no record: the state of the pipeline while a function is
\* applied on its own
NoPipeline ==
  /\ store = <<>>
  /\ nextId = 1
  /\ ops = 0
  /\ search = [s \in Searches |-> IdleSearch]

MaxList == 4

SimGrid == { 100 * k : k \in 0..10 }

TextGrid == {0, 600}

\* the lists searchImagesByEmbedding hands over are sorted by similarity,
\* largest first
Descending(sims) == \A i \in 1..(Len(sims) - 1) : sims[i] >= sims[i + 1]

ScoredList(sims, texts) ==
  [i \in 1..Len(sims) |-> [similarity |-> sims[i], metrics |-> [text |-> texts[i]]]]

InitThreshold ==
  /\ NoPipeline
  /\ \E n \in 1..MaxList :
       \E sims \in [1..n -> SimGrid] :
         /\ Descending(sims)
         /\ \E texts \in [1..n -> TextGrid] :
              fn = [op |-> "arguments", results |-> ScoredList(sims, texts)]

\* const similarityStats = analyzeDistribution(results.map((r) => r.similarity));
\* const threshold = determineOptimalThreshold(results, similarityStats)
CallDetermineOptimalThreshold ==
  /\ fn.op = "arguments"
  /\ \E similarityStats \in { analyzeDistribution(Similarities(fn.results)) } :
       fn' = [ op |-> "determineOptimalThreshold", results |-> fn.results,
               stats |-> similarityStats,
               threshold |-> determineOptimalThreshold(fn.results, similarityStats) ]
  /\ UNCHANGED <<store, nextId, ops, search>>

NextThreshold == CallDetermineOptimalThreshold

SpecThreshold == InitThreshold /\ [][NextThreshold]_vars

\* C2: for every non-empty list of scored results with scores between 0 and 1
\* the threshold determineOptimalThreshold returns is at least 0.4 and at most
\* 0.85.
C2_ThresholdInRange ==
  fn.op = "determineOptimalThreshold" =>
    fn.threshold >= 40000 /\ fn.threshold <= 85000

\* a gap above 0.1 below two equal top scores puts the threshold at the upper
\* end of the range
C2_Witness ==
  /\ fn.op = "determineOptimalThreshold"
  /\ Len(fn.results) >= 3
  /\ fn.results[2].similarity - fn.results[3].similarity > 100
  /\ fn.threshold = 85000

Flags ==
  [ isTextHeavy : BOOLEAN, isColorful : BOOLEAN, isHighContrast : BOOLEAN,
    isDetailed : BOOLEAN ]

MetricGrid == {0, 250, 500, 800, 900, 1000}

InitWeights ==
  /\ NoPipeline
  /\ fn \in [ op : {"arguments"}, characteristics : Flags,
              hasSignificantText : BOOLEAN, textSim : MetricGrid, cosSim : MetricGrid,
              euclideanSim : {0, 1000}, colorSim : MetricGrid ]

\* const weights = getAdaptiveWeights(imageCharacteristics, hasSignificantText,
\*                                    textSim, cosSim, euclideanSim, colorSim)
CallGetAdaptiveWeights ==
  /\ fn.op = "arguments"
  /\ fn' = [ op |-> "getAdaptiveWeights", characteristics |-> fn.characteristics,
             hasSignificantText |-> fn.hasSignificantText, textSim |-> fn.textSim,
             cosSim |-> fn.cosSim, colorSim |-> fn.colorSim,
             weights |-> getAdaptiveWeights(fn.characteristics, fn.hasSignificantText,
                                            fn.textSim, fn.cosSim, fn.euclideanSim,
                                            fn.colorSim) ]
  /\ UNCHANGED <<store, nextId, ops, search>>

NextWeights == CallGetAdaptiveWeights

SpecWeights == InitWeights /\ [][NextWeights]_vars

\* C3: for every combination of the four flags, the text flag and the scores
\* the six weights getAdaptiveWeights returns sum to 1: each is its share of
\* totalWeight, and the six shares make up the whole of totalWeight.
C3_WeightsSumToOne ==
  fn.op = "getAdaptiveWeights" =>
    /\ fn.weights.totalWeight > 0
    /\ fn.weights.cosine + fn.weights.euclidean + fn.weights.manhattan + fn.weights.color
         + fn.weights.visualProps + fn.weights.text = fn.weights.totalWeight

\* the adjustments have moved the weights away from a sum of 1 before the
\* division
C3_Witness ==
  /\ fn.op = "getAdaptiveWeights"
  /\ fn.characteristics.isColorful /\ fn.characteristics.isDetailed
  /\ fn.cosSim > 800 /\ fn.colorSim > 800
  /\ fn.weights.totalWeight # 1000000

----------------------------------------------------------------------------
(* Text recognition: initOCR, extractTextFromImage and terminateOCR.  The   *)
(* state of the module is the record fn: the worker, the initialisation    *)
(* flag and promise, the result cache, the clock and the pending calls.    *)

MAX_CACHE_SIZE == 100

\* 30 * 60 * 1000
CACHE_EXPIRY_MS == 1800000

\* a data URL: its first 100 characters, its length, and the picture encoded
DataUrl(prefix, length, picture) ==
  [ prefix |-> prefix, length |-> length, picture |-> picture ]

\* two different pictures of one size whose encodings begin alike, and a third
OcrUrls ==
  { DataUrl("data:image/png;base64,iVBORw0KGgo", 4000, "hello"),
    DataUrl("data:image/png;base64,iVBORw0KGgo", 4000, "invoice"),
    DataUrl("data:image/jpeg;base64,/9j/4AAQSk", 5200, "invoiceB") }

CacheKey_WholeUrl(imageDataUrl) ==
  <<imageDataUrl.prefix, imageDataUrl.length, imageDataUrl.picture>>

\* imageDataUrl.substring(0, 100) + imageDataUrl.length
CacheKey(imageDataUrl) == <<imageDataUrl.prefix, imageDataUrl.length>>

\* processedResult, built from what the worker recognises in the picture
ProcessedResult(imageDataUrl) ==
  LET data == CASE imageDataUrl.picture = "hello" -> TextHello[1]
                [] imageDataUrl.picture = "invoice" -> TextInvoice[1]
                [] imageDataUrl.picture = "invoiceB" -> TextInvoiceB[1]
  IN [ text |-> data.text, confidence |-> data.confidence, words |-> data.words,
       language |-> "eng" ]

\* { text: "", confidence: 0, words: [] }
EmptyOcrResult == [ text |-> <<>>, confidence |-> 0, words |-> Some(<<>>) ]

\* textExtractionCache.get(cacheKey): the cache is the list of its entries in
\* the order of insertion
CacheGet(cache, cacheKey) ==
  LET at == { i \in 1..Len(cache) : cache[i].key = cacheKey }
  IN IF at = {} THEN Undefined ELSE Some(cache[CHOOSE i \in at : TRUE])

\* the eviction of the oldest entry of a full cache, then
\* textExtractionCache.set(cacheKey, {...processedResult, timestamp})
CacheSet(cache, cacheKey, processedResult, timestamp) ==
  LET entry == [ key |-> cacheKey, text |-> processedResult.text,
                 confidence |-> processedResult.confidence,
                 words |-> processedResult.words,
                 language |-> processedResult.language, timestamp |-> timestamp ]
      kept == IF Len(cache) >= MAX_CACHE_SIZE THEN Tail(cache) ELSE cache
      at == { i \in 1..Len(kept) : kept[i].key = cacheKey }
  IN IF at = {} THEN Append(kept, entry)
     ELSE [i \in 1..Len(kept) |-> IF i \in at THEN entry ELSE kept[i]]

OcrCallers == {1, 2}

\* the calls of initOCR and of terminateOCR that the page makes in a run
MaxInits == 1

MaxTerminates == 1

\* the clock advances in steps of the expiry time
MaxTicks == 1

\* a call of extractTextFromImage.  awaiting: the initialisation promise the
\* call waits for; worker: the worker recognize was called on; failure, stored
\* and preprocess are history: which step failed, whether the call wrote the
\* cache, and what preprocessImageForOCR resolved with.
IdleCall ==
  [ pc |-> "idle", url |-> <<>>, forceRefresh |-> FALSE, enhanceImage |-> Undefined,
    awaiting |-> 0, worker |-> 0, failure |-> "none", preprocess |-> "none",
    result |-> Undefined, stored |-> FALSE ]

\* ocrWorker and initPromise are 0 for null, else the number of the worker in
\* workers and of the promise in promises
InitOcr ==
  /\ NoPipeline
  /\ fn = [ op |-> "ocr", ocrWorker |-> 0, isInitializing |-> FALSE, initPromise |-> 0,
            promises |-> <<>>, workers |-> <<>>, cache |-> <<>>, now |-> 0,
            calls |-> [c \in OcrCallers |-> IdleCall],
            inits |-> 0, terminates |-> 0, terminating |-> 0 ]

\* initOCR() up to its return: the state it leaves and the promise it returns,
\* 0 when it returns without one
initOCR(f) ==
  IF f.isInitializing THEN [ f |-> f, awaited |-> f.initPromise ]
  ELSE IF f.ocrWorker = 0
       THEN [ f |-> [f EXCEPT !.isInitializing = TRUE,
                               !.promises = Append(@, "pending"),
                               !.initPromise = Len(f.promises) + 1],
              awaited |-> Len(f.promises) + 1 ]
       ELSE [ f |-> f, awaited |-> 0 ]

\* the catch blocks of extractTextFromImage
ReturnEmpty(call, failure) ==
  [call EXCEPT !.pc = "returned", !.result = Some(EmptyOcrResult), !.failure = failure]

Recognize_Uncaught(f, call) ==
  IF f.ocrWorker = 0
  THEN [call EXCEPT !.pc = "threw", !.failure = "worker"]
  ELSE [call EXCEPT !.pc = "recognizing", !.worker = f.ocrWorker]

\* ocrWorker!.recognize(processedImageUrl): a TypeError when ocrWorker is null
Recognize(f, call) ==
  IF f.ocrWorker = 0
  THEN ReturnEmpty(call, "worker")
  ELSE [call EXCEPT !.pc = "recognizing", !.worker = f.ocrWorker]

\* the try block up to its first await
TryBlock(f, call) ==
  IF call.enhanceImage # Some(FALSE)
  THEN [call EXCEPT !.pc = "preprocessing"]
  ELSE Recognize(f, call)

\* extractTextFromImage(imageDataUrl, {forceRefresh, enhanceImage}) up to its
\* first await or its return
ExtractTextFromImage(c, imageDataUrl, forceRefresh, enhanceImage) ==
  /\ fn.calls[c].pc = "idle"
  /\ \E call \in { [IdleCall EXCEPT !.url = imageDataUrl, !.forceRefresh = forceRefresh,
                                    !.enhanceImage = enhanceImage] } :
       \E cached \in { CacheGet(fn.cache, CacheKey(imageDataUrl)) } :
         IF ~forceRefresh /\ Defined(cached)
              /\ fn.now - cached[1].timestamp < CACHE_EXPIRY_MS
         THEN fn' = [fn EXCEPT !.calls[c] =
                       [call EXCEPT !.pc = "returned",
                                    !.result = Some([ text |-> cached[1].text,
                                                      confidence |-> cached[1].confidence,
                                                      words |-> cached[1].words ])]]
         ELSE IF fn.ocrWorker = 0
              THEN \E started \in { initOCR(fn) } :
                     fn' = [started.f EXCEPT !.calls[c] =
                              [call EXCEPT !.pc = "awaitInit", !.awaiting = started.awaited]]
              ELSE fn' = [fn EXCEPT !.calls[c] = TryBlock(fn, call)]
  /\ UNCHANGED <<store, nextId, ops, search>>

\* await initOCR() returns or throws in the call that waits for it
InitOCRSettles(c) ==
  /\ fn.calls[c].pc = "awaitInit"
  /\ fn.promises[fn.calls[c].awaiting] # "pending"
  /\ fn' = [fn EXCEPT !.calls[c] =
              IF fn.promises[fn.calls[c].awaiting] = "rejected"
              THEN ReturnEmpty(fn.calls[c], "init")
              ELSE TryBlock(fn, fn.calls[c])]
  /\ UNCHANGED <<store, nextId, ops, search>>

\* preprocessImageForOCR resolves: with the processed picture, or with the
\* original one when the image does not load or the canvas has no context
PreprocessResolves(c, outcome) ==
  /\ fn.calls[c].pc = "preprocessing"
  /\ fn' = [fn EXCEPT !.calls[c] = Recognize(fn, [fn.calls[c] EXCEPT !.preprocess = outcome])]
  /\ UNCHANGED <<store, nextId, ops, search>>

\* recognize resolves: the result is built, cached and returned
RecognizeResolves(c) ==
  /\ fn.calls[c].pc = "recognizing"
  /\ fn.workers[fn.calls[c].worker] = "live"
  /\ \E processedResult \in { ProcessedResult(fn.calls[c].url) } :
       fn' = [fn EXCEPT
                !.cache = CacheSet(fn.cache, CacheKey(fn.calls[c].url), processedResult, fn.now),
                !.calls[c] = [@ EXCEPT !.pc = "returned", !.result = Some(processedResult),
                                       !.stored = TRUE]]
  /\ UNCHANGED <<store, nextId, ops, search>>

\* recognize rejects
RecognizeRejects(c) ==
  /\ fn.calls[c].pc = "recognizing"
  /\ fn' = [fn EXCEPT !.calls[c] = ReturnEmpty(fn.calls[c], "recognize")]
  /\ UNCHANGED <<store, nextId, ops, search>>

\* createWorker resolves inside initPromise p
CreateWorkerResolves(p) ==
  /\ fn.promises[p] = "pending"
  /\ fn' = [fn EXCEPT !.workers = Append(@, "live"), !.ocrWorker = Len(fn.workers) + 1,
                      !.isInitializing = FALSE, !.promises[p] = "fulfilled"]
  /\ UNCHANGED <<store, nextId, ops, search>>

\* createWorker rejects: the catch throws "OCR initialization failed"
CreateWorkerRejects(p) ==
  /\ fn.promises[p] = "pending"
  /\ fn' = [fn EXCEPT !.isInitializing = FALSE, !.promises[p] = "rejected"]
  /\ UNCHANGED <<store, nextId, ops, search>>

\* the page calls initOCR() when it mounts
HomeInitOCR ==
  /\ fn.inits < MaxInits
  /\ fn' = [initOCR(fn).f EXCEPT !.inits = @ + 1]
  /\ UNCHANGED <<store, nextId, ops, search>>

\* terminateOCR() up to its await, or to its end when there is no worker
TerminateOCR ==
  /\ fn.terminates < MaxTerminates
  /\ fn' = IF fn.ocrWorker # 0
           THEN [fn EXCEPT !.workers[fn.ocrWorker] = "terminated",
                           !.terminating = @ + 1, !.terminates = @ + 1]
           ELSE [fn EXCEPT !.cache = <<>>, !.terminates = @ + 1]
  /\ UNCHANGED <<store, nextId, ops, search>>

\* await ocrWorker.terminate() returns
TerminateReturns ==
  /\ fn.terminating > 0
  /\ fn' = [fn EXCEPT !.ocrWorker = 0, !.cache = <<>>, !.terminating = @ - 1]
  /\ UNCHANGED <<store, nextId, ops, search>>

\* time passes
Tick ==
  /\ fn.now < MaxTicks * CACHE_EXPIRY_MS
  /\ fn' = [fn EXCEPT !.now = @ + CACHE_EXPIRY_MS]
  /\ UNCHANGED <<store, nextId, ops, search>>

NextOcr ==
  \/ \E c \in OcrCallers, url \in OcrUrls, forceRefresh \in BOOLEAN,
        enhanceImage \in {Undefined, Some(FALSE)} :
       ExtractTextFromImage(c, url, forceRefresh, enhanceImage)
  \/ \E c \in OcrCallers : InitOCRSettles(c)
  \/ \E c \in OcrCallers, outcome \in {"processed", "original"} : PreprocessResolves(c, outcome)
  \/ \E c \in OcrCallers : RecognizeResolves(c)
  \/ \E c \in OcrCallers : RecognizeRejects(c)
  \/ \E p \in 1..Len(fn.promises) : CreateWorkerResolves(p)
  \/ \E p \in 1..Len(fn.promises) : CreateWorkerRejects(p)
  \/ HomeInitOCR
  \/ TerminateOCR
  \/ TerminateReturns
  \/ Tick

SpecOcr == InitOcr /\ [][NextOcr]_vars

----------------------------------------------------------------------------
(* The vector metrics of the scorer on enumerated vectors *)

\* the lengths of the vectors enumerated
MaxDim == 2

\* components in fifths: the vectors over this grid include the zero vectors
\* and the unit vectors (5,0), (3,4), (-4,3), ...
ComponentGrid == {-5, -4, -3, 0, 3, 4, 5}

\* a record with nothing but its embedding
BareRecord(embedding) == ImageRecord(0, ImgLight, embedding, Undefined, Undefined)

\* the vectors of the grid that are no longer than a unit vector
GridVectors(n) ==
  { v \in [1..n -> ComponentGrid] : SumSeq([j \in 1..n |-> v[j] * v[j]]) <= 25 }

InitMetrics ==
  /\ NoPipeline
  /\ \E n \in 1..MaxDim :
       \E a \in GridVectors(n), b \in GridVectors(n) :
         fn = [ op |-> "arguments", embedding |-> a, image |-> BareRecord(b) ]

\* the metrics batch.map computes for one image
CallImageMetrics ==
  /\ fn.op = "arguments"
  /\ fn' = [ op |-> "metrics", embedding |-> fn.embedding, image |-> fn.image,
             metrics |-> ImageMetrics(fn.image, fn.embedding, EmptyMetadata, Undefined) ]
  /\ UNCHANGED <<store, nextId, ops, search>>

NextMetrics == CallImageMetrics

SpecMetrics == InitMetrics /\ [][NextMetrics]_vars

IsZeroVector(v) == \A j \in 1..Len(v) : v[j] = 0

\* |v| = 1, components being fifths
IsUnitVector(v) == SumSeq([j \in 1..Len(v) |-> v[j] * v[j]]) = 25

\* C12: the cosine similarity of two vectors of one length is exactly 0 when
\* the query vector or the stored vector is all zero.
C12_CosineOfZeroVectorIsZero ==
  fn.op = "metrics" /\ (IsZeroVector(fn.embedding) \/ IsZeroVector(fn.image.embedding)) =>
    fn.metrics.cosine = 0

\* a vector that is not zero was compared with a zero vector
C12_Witness ==
  /\ fn.op = "metrics"
  /\ ~IsZeroVector(fn.embedding) /\ IsZeroVector(fn.image.embedding)
  /\ Len(fn.embedding) = 2

\* C14: for two unit vectors of one length the cosine, the euclidean and the
\* manhattan metric that the scorer records are all at least 0 and at most 1.
C14_VectorMetricsInUnitRange ==
  fn.op = "metrics" /\ IsUnitVector(fn.embedding) /\ IsUnitVector(fn.image.embedding) =>
    /\ fn.metrics.cosine >= 0 /\ fn.metrics.cosine <= 1000
    /\ fn.metrics.euclidean >= 0 /\ fn.metrics.euclidean <= 1000
    /\ fn.metrics.manhattan >= 0 /\ fn.metrics.manhattan <= 1000

----------------------------------------------------------------------------
(* The text similarity engine on enumerated OCR results *)

\* the number of words of an enumerated OCR result
MaxWords == 2

Vocabulary == {W_hello, W_world, W_total, W_totals}

\* the OCR results of up to MaxWords words, all words of one confidence
OcrResults ==
  UNION { { OcrResult(ws, 800, wordConf) : ws \in [1..n -> Vocabulary], wordConf \in {900, 1000} } :
          n \in 1..MaxWords }

InitText ==
  /\ NoPipeline
  /\ \E textA \in OcrResults, textB \in OcrResults :
       fn = [ op |-> "arguments", textA |-> textA, textB |-> textB ]

\* calculateTextSimilarity(textA, textB) with the three components it combines
CallCalculateTextSimilarity ==
  /\ fn.op = "arguments"
  /\ \E wordsMapA \in { WordsMap(fn.textA[1].words[1]) } :
       \E wordsMapB \in { WordsMap(fn.textB[1].words[1]) } :
         fn' = [ op |-> "calculateTextSimilarity", textA |-> fn.textA, textB |-> fn.textB,
                 weightedJaccardSim |-> weightedJaccardSim(wordsMapA, wordsMapB),
                 phraseBonus |-> calculatePhraseMatches(fn.textA[1].text, fn.textB[1].text),
                 fuzzyMatchScore |-> calculateFuzzyMatches(wordsMapA, wordsMapB),
                 similarity |-> calculateTextSimilarity(fn.textA, fn.textB) ]
  /\ UNCHANGED <<store, nextId, ops, search>>

NextText == CallCalculateTextSimilarity

SpecText == InitText /\ [][NextText]_vars

\* C13: when the two sides are the same OCR result, hello and world at 0.9,
\* the weighted Jaccard component is 1 and the fuzzy component is 0.
C13_IdenticalTextJaccardOne ==
  /\ fn.op = "calculateTextSimilarity"
  /\ fn.textA = fn.textB
  /\ fn.textA = OcrResult(<<W_hello, W_world>>, 800, 900)
  => fn.weightedJaccardSim = 1000 /\ fn.fuzzyMatchScore = 0

----------------------------------------------------------------------------
(* The visual metadata comparator on enumerated colour lists and properties *)

\* the length of an enumerated colour list
MaxColors == 2

Palette == { <<0, 0, 0>>, <<255, 255, 255>>, <<200, 160, 80>> }

ColorLists == UNION { [1..n -> Palette] : n \in 1..MaxColors }

\* the strings extractImageMetadata makes of a list of colours
RgbStrings(colors) == [i \in 1..Len(colors) |-> RgbString(colors[i])]

\* a property is absent, 0, or a value in between
PropertyGrid == {Undefined, Some(0), Some(600)}

PropsGrid ==
  [ dominantColors : {Undefined}, brightness : PropertyGrid, contrast : PropertyGrid,
    colorEntropy : PropertyGrid, edgeDensity : {Undefined, Some(0), Some(1000)} ]

InitVisual ==
  /\ NoPipeline
  /\ \/ \E colorsA \in ColorLists, colorsB \in ColorLists :
          fn = [ op |-> "colors", colorsA |-> colorsA, colorsB |-> colorsB ]
     \/ \E propsA \in PropsGrid, propsB \in PropsGrid :
          fn = [ op |-> "props", propsA |-> propsA, propsB |-> propsB ]

\* colorSimilarity(queryMetadata.dominantColors, image.metadata.dominantColors)
CallColorSimilarity ==
  /\ fn.op = "colors"
  /\ fn' = [ op |-> "colorSimilarity", colorsA |-> fn.colorsA, colorsB |-> fn.colorsB,
             similarity |-> colorSimilarity(Some(RgbStrings(fn.colorsA)),
                                            Some(RgbStrings(fn.colorsB))) ]
  /\ UNCHANGED <<store, nextId, ops, search>>

\* visualPropertiesSimilarity(queryMetadata, image.metadata)
CallVisualPropertiesSimilarity ==
  /\ fn.op = "props"
  /\ fn' = [ op |-> "visualPropertiesSimilarity", propsA |-> fn.propsA, propsB |-> fn.propsB,
             similarity |-> visualPropertiesSimilarity(Some(fn.propsA), Some(fn.propsB)) ]
  /\ UNCHANGED <<store, nextId, ops, search>>

NextVisual == CallColorSimilarity \/ CallVisualPropertiesSimilarity

SpecVisual == InitVisual /\ [][NextVisual]_vars

\* C16: for two non-empty colour lists the colour similarity is the mean, over
\* the first three colours of A, of 1 minus the distance in RGB space to the
\* nearest colour of B divided by 441.67: it is about 0 for black against
\* white and 1 for a list against itself.
C16_ColorSimilarityFromRgb ==
  fn.op = "colorSimilarity" =>
    LET topA == SubSeq(fn.colorsA, 1, Min(3, Len(fn.colorsA)))
        dist(c, d) ==
          (ISqrt(((c[1] - d[1]) * (c[1] - d[1]) + (c[2] - d[2]) * (c[2] - d[2])
                    + (c[3] - d[3]) * (c[3] - d[3])) * 10000) * 1000) \div 44167
        nearest(c) == CHOOSE x \in { dist(c, fn.colorsB[k]) : k \in 1..Len(fn.colorsB) } :
                        \A k \in 1..Len(fn.colorsB) : x <= dist(c, fn.colorsB[k])
    IN fn.similarity = SumSeq([i \in 1..Len(topA) |-> 1000 - nearest(topA[i])]) \div Len(topA)

\* C17: the visual-properties similarity is 0.3, 0.2, 0.25 and 0.25 times the
\* terms of brightness, contrast, colour entropy and edge density, a term being
\* 1 - |a - b| when both sides have the property, 0 included, and 0.5 when a
\* side lacks it.
C17_PropertyTermsUseZero ==
  fn.op = "visualPropertiesSimilarity" =>
    LET term(a, b) == IF Defined(a) /\ Defined(b) THEN 1000 - Abs(a[1] - b[1]) ELSE 500
    IN fn.similarity =
         (term(fn.propsA.brightness, fn.propsB.brightness) * 300
            + term(fn.propsA.contrast, fn.propsB.contrast) * 200
            + term(fn.propsA.colorEntropy, fn.propsB.colorEntropy) * 250
            + term(fn.propsA.edgeDensity, fn.propsB.edgeDensity) * 250) \div 1000

----------------------------------------------------------------------------
(* Properties of the threshold selector *)

\* no result has a text metric above 0.5
NoTextMatches(results) == \A i \in 1..Len(results) : results[i].metrics.text <= 500

\* C18: with at least 3 results and no text metric above 0.5, when the largest
\* gap between consecutive scores exceeds 0.1, the threshold is at least the
\* smaller of 0.85 and the midpoint of the two scores around that gap, also
\* when the gap lies between the first and the second result.  The gap is
\* taken to be the one that is larger than every other gap.
C18_LargestGapRaisesThreshold ==
  fn.op = "determineOptimalThreshold" /\ Len(fn.results) >= 3 /\ NoTextMatches(fn.results) =>
    LET n == Len(fn.results)
        gap(i) == fn.results[i].similarity - fn.results[i + 1].similarity
    IN \A i \in 1..(n - 1) :
         gap(i) > 100 /\ (\A k \in 1..(n - 1) : k # i => gap(k) < gap(i)) =>
           fn.threshold >= Min(85000, (fn.results[i].similarity
                                         + fn.results[i + 1].similarity) * 50)

\* C19: with at least 3 results, Q1 and Q3 are the scores at positions
\* floor(n/4) and floor(3n/4) of the list sorted largest first, Q1 - Q3 is not
\* negative, and when Q1 - Q3 exceeds 0.2 and no text metric is above 0.5 the
\* threshold is at least the smaller of 0.85 and Q3.
C19_QuartileRuleRaisesThreshold ==
  fn.op = "determineOptimalThreshold" /\ Len(fn.results) >= 3 =>
    LET n == Len(fn.results)
        q1 == fn.stats.quartiles[1]
        q3 == fn.stats.quartiles[3]
    IN /\ q1 = fn.results[n \div 4 + 1].similarity
       /\ q3 = fn.results[(3 * n) \div 4 + 1].similarity
       /\ q1 - q3 >= 0
       /\ q1 - q3 > 200 /\ NoTextMatches(fn.results) => fn.threshold >= Min(85000, q3 * 100)

\* the quartile rule alone has set the threshold: it is Q3, above the base
C19_Witness ==
  /\ fn.op = "determineOptimalThreshold" /\ Len(fn.results) >= 3
  /\ NoTextMatches(fn.results)
  /\ fn.stats.quartiles[1] - fn.stats.quartiles[3] > 200
  /\ fn.threshold = fn.stats.quartiles[3] * 100
  /\ fn.threshold > 45000

\* C20: with at least 3 results and no text metric above 0.5, a top score
\* above 0.8 that exceeds the second score by more than 0.2 puts the threshold
\* at or above the smaller of 0.85 and 0.8 times the top score; with fewer than
\* 3 results the threshold is exactly 0.45.
C20_TopRuleRaisesThreshold ==
  fn.op = "determineOptimalThreshold" =>
    /\ Len(fn.results) < 3 => fn.threshold = 45000
    /\ /\ Len(fn.results) >= 3 /\ NoTextMatches(fn.results)
       /\ fn.results[1].similarity > 800
       /\ fn.results[1].similarity - fn.results[2].similarity > 200
       => fn.threshold >= Min(85000, fn.results[1].similarity * 80)

\* the top rule alone has set the threshold, to 0.8 times the top score
C20_Witness ==
  /\ fn.op = "determineOptimalThreshold" /\ Len(fn.results) >= 3
  /\ NoTextMatches(fn.results)
  /\ fn.results[1].similarity > 800
  /\ fn.results[1].similarity - fn.results[2].similarity > 200
  /\ fn.threshold = fn.results[1].similarity * 80
  /\ fn.threshold > fn.stats.quartiles[3] * 100

----------------------------------------------------------------------------
(* The fusion of the six metrics on enumerated metric values *)

\* the metric values enumerated: both sides of 0.4, of 0.3, of 0.2 and of 0.8
FusionMetrics ==
  [ cosine : {-1000, 300, 900}, euclidean : {-414, 300, 900}, manhattan : {500},
    color : {200, 500, 1000}, visualProps : {500}, text : {0, 100, 200, 300, 600} ]

\* a query without text, with a short text, with a text of more than 3 words
FusionTexts == {Undefined, TextHello, TextInvoice}

FusionKinds == {"invoice", "nometa", "legacy"}

InitFusion ==
  /\ NoPipeline
  /\ \E metrics \in FusionMetrics, textContent \in FusionTexts, kind \in FusionKinds :
       fn = [ op |-> "arguments", image |-> MakeRecord(kind, 0), metrics |-> metrics,
              textContent |-> textContent ]

\* the body of batch.map from hasSignificantText on, the six metrics given
CallFusion ==
  /\ fn.op = "arguments"
  /\ \E flags \in { ImageFlags(fn.image, EmptyMetadata, fn.textContent, fn.metrics.text) } :
       \E weights \in { getAdaptiveWeights(flags.characteristics, flags.hasSignificantText,
                                           fn.metrics.text, fn.metrics.cosine,
                                           fn.metrics.euclidean, fn.metrics.color) } :
         \E penaltyFactor \in { PenaltyFactor(fn.metrics.cosine, fn.metrics.euclidean,
                                              fn.metrics.color, flags.hasSignificantText,
                                              fn.metrics.text) } :
           fn' = [ op |-> "fusion", image |-> fn.image, metrics |-> fn.metrics,
                   textContent |-> fn.textContent,
                   hasSignificantText |-> flags.hasSignificantText,
                   weights |-> weights, penaltyFactor |-> penaltyFactor,
                   similarity |-> CombinedSimilarity(fn.metrics, weights, penaltyFactor) ]
  /\ UNCHANGED <<store, nextId, ops, search>>

NextFusion == CallFusion

SpecFusion == InitFusion /\ [][NextFusion]_vars

\* C21: the combined similarity is the weighted sum of the six metrics times
\* the product of the factors that apply: 0.8 for cosine < 0.4 and euclidean <
\* 0.4, 0.9 for color < 0.3, 0.85 for hasSignificantText and text < 0.2.
C21_CombinedIsWeightedSumTimesPenalties ==
  fn.op = "fusion" =>
    LET m == fn.metrics
        w == fn.weights
        factors == << IF m.cosine < 400 /\ m.euclidean < 400 THEN 800 ELSE 1000,
                      IF m.color < 300 THEN 900 ELSE 1000,
                      IF fn.hasSignificantText /\ m.text < 200 THEN 850 ELSE 1000 >>
        sum == m.cosine * w.cosine + m.euclidean * w.euclidean + m.manhattan * w.manhattan
                 + m.color * w.color + m.visualProps * w.visualProps + m.text * w.text
    IN /\ fn.penaltyFactor * 1000000 = factors[1] * factors[2] * factors[3]
       /\ fn.similarity = ((sum \div w.totalWeight) * fn.penaltyFactor) \div 1000

\* two factors apply together
C21_Witness ==
  /\ fn.op = "fusion"
  /\ fn.metrics.cosine < 400 /\ fn.metrics.euclidean < 400 /\ fn.metrics.color < 300
  /\ fn.penaltyFactor = 720

----------------------------------------------------------------------------
(* Properties of the weight selector *)

\* C22: the weights getAdaptiveWeights returns are the base weights after the
\* text reset, the colorful step, the detailed step, the cosine > 0.8 step and
\* the color > 0.8 step, in that order, each divided by their sum; they do not
\* depend on isHighContrast or on the euclidean score, and none is negative.
C22_WeightsFollowTheFiveSteps ==
  fn.op = "getAdaptiveWeights" =>
    LET textual == fn.characteristics.isTextHeavy \/ fn.hasSignificantText
        textWeight == 200000 + fn.textSim * 300
        colorful == fn.characteristics.isColorful
        detailed == fn.characteristics.isDetailed
        Scaled(cond, w, cap) == IF cond THEN Min(cap, (w * 6) \div 5) ELSE w
        cosine ==
          Scaled(fn.cosSim > 800,
                 Scaled(detailed,
                        (IF textual THEN 250000 - textWeight \div 10 ELSE 300000)
                          - (IF colorful THEN 50000 ELSE 0),
                        350000),
                 400000)
        euclidean ==
          Scaled(detailed, IF textual THEN 200000 - textWeight \div 20 ELSE 250000, 300000)
        color0 == IF textual THEN 150000 ELSE 200000
        color ==
          Scaled(fn.colorSim > 800,
                 (IF colorful THEN Min(300000, (color0 * 3) \div 2) ELSE color0)
                   - (IF detailed THEN 50000 ELSE 0),
                 300000)
        expected == [ cosine |-> cosine, euclidean |-> euclidean,
                      manhattan |-> IF textual THEN 100000 ELSE 150000,
                      color |-> color, visualProps |-> 50000,
                      text |-> IF textual THEN textWeight ELSE 50000 ]
    IN /\ \A k \in DOMAIN expected : fn.weights[k] = expected[k] /\ fn.weights[k] >= 0
       /\ fn.weights.totalWeight
            = cosine + euclidean + expected.manhattan + color + 50000 + expected.text
       /\ fn.weights.totalWeight > 0

\* every step has applied, on a high-contrast image
C22_Witness ==
  /\ fn.op = "getAdaptiveWeights"
  /\ fn.characteristics.isTextHeavy /\ fn.characteristics.isColorful
  /\ fn.characteristics.isDetailed /\ fn.characteristics.isHighContrast
  /\ fn.cosSim > 800 /\ fn.colorSim > 800 /\ fn.textSim = 500


\* C23: for every non-empty sorted batch whose top combined similarity is
\* above 0.45 the threshold is strictly below the top similarity, so the
\* filtered and truncated result is non-empty and starts with the top-scoring
\* record.
C23_ThresholdKeepsBestMatch ==
  (fn.op = "determineOptimalThreshold" /\ fn.results[1].similarity > 450) =>
    /\ fn.threshold < fn.results[1].similarity * 100
    /\ \E value \in { TopResults(FilterResults(fn.results, fn.threshold)) } :
         /\ Len(value) > 0
         /\ value[1] = fn.results[1]

\* a raised threshold cuts the runner-up and keeps the best match
C23_Witness ==
  /\ fn.op = "determineOptimalThreshold"
  /\ Len(fn.results) >= 3
  /\ fn.results[1].similarity > 450
  /\ fn.threshold > 45000
  /\ fn.threshold >= fn.results[2].similarity * 100
  /\ Len(FilterResults(fn.results, fn.threshold)) = 1


----------------------------------------------------------------------------
(* Properties of the OCR cache and of the worker's lifetime *)

\* C25: a call of extractTextFromImage without forceRefresh whose data URL has
\* the first 100 characters and the length of an entry cached less than 30
\* minutes ago returns that entry's text, confidence and words at once, without
\* initialising a worker, preprocessing, recognising or writing the cache,
\* whichever picture the URL holds.
C25_SamePrefixAndLengthCollide ==
  [][ \A c \in OcrCallers : \A i \in 1..Len(fn.cache) :
        ( /\ fn.calls[c].pc = "idle"
          /\ fn'.calls[c].pc # "idle"
          /\ ~fn'.calls[c].forceRefresh
          /\ fn.cache[i].key[1] = fn'.calls[c].url.prefix
          /\ fn.cache[i].key[2] = fn'.calls[c].url.length
          /\ fn.now - fn.cache[i].timestamp < CACHE_EXPIRY_MS )
        => /\ fn'.calls[c].pc = "returned"
           /\ fn'.calls[c].result = Some([ text |-> fn.cache[i].text,
                                           confidence |-> fn.cache[i].confidence,
                                           words |-> fn.cache[i].words ])
           /\ fn'.calls[c].worker = 0
           /\ ~fn'.calls[c].stored
           /\ fn'.cache = fn.cache
           /\ fn'.promises = fn.promises
           /\ fn'.workers = fn.workers ]_vars

\* the second call was given another picture than the first and has returned
\* what was recognised in the first picture
C25_Witness ==
  /\ fn.calls[1].stored
  /\ fn.calls[1].url.picture = "hello"
  /\ fn.calls[2].pc = "returned"
  /\ fn.calls[2].url.picture = "invoice"
  /\ fn.calls[2].url # fn.calls[1].url
  /\ ~fn.calls[2].forceRefresh
  /\ fn.calls[2].worker = 0
  /\ ~fn.calls[2].stored
  /\ fn.calls[2].result = Some([ text |-> ProcessedResult(fn.calls[1].url).text,
                                 confidence |-> ProcessedResult(fn.calls[1].url).confidence,
                                 words |-> ProcessedResult(fn.calls[1].url).words ])
  /\ fn.calls[2].result[1].text # ProcessedResult(fn.calls[2].url).text


\* C26: once terminateOCR has been called and has returned, every
\* initialisation has settled and no extractTextFromImage call was ever made,
\* ocrWorker is null and no worker is left running.
C26_NoWorkerAfterTerminate ==
  ( /\ fn.terminates > 0
    /\ fn.terminating = 0
    /\ ~fn.isInitializing
    /\ \A p \in 1..Len(fn.promises) : fn.promises[p] # "pending"
    /\ \A c \in OcrCallers : fn.calls[c].pc = "idle" )
  => /\ fn.ocrWorker = 0
     /\ \A w \in 1..Len(fn.workers) : fn.workers[w] = "terminated"


----------------------------------------------------------------------------
(* The page, its search form and its single-image upload form *)

MaxMounts == 2

MaxTasks == 1

\* the data URLs of the pictures the user can choose
FormImages == {"photoA", "photoB"}

\* what extractTextFromImage can return for a picture: the text recognised in
\* it, or the empty result
ExtractTextOutcomes(imageDataUrl) ==
  { [ text |-> IF imageDataUrl = "photoA" THEN "alpha" ELSE "beta",
      confidence |-> IF imageDataUrl = "photoA" THEN 900 ELSE 600 ],
    [ text |-> "", confidence |-> 0 ] }

\* the lists searchImagesByEmbedding can resolve with
SearchOutcomes == { <<>>, <<"photoA">> }

\* the state of a form that has just been mounted; image is capturedImage ||
\* uploadedImage in the search form and preview in the upload form, reading is
\* the file being read, timer the picture the pending 100 ms timer will
\* extract, extracting the picture whose extraction is in flight, busy is
\* activeSearchRef or activeUploadRef
FreshForm ==
  [ image |-> Undefined, reading |-> Undefined, extractedText |-> Undefined,
    textExtractionStatus |-> "idle", activeTextExtraction |-> FALSE,
    timer |-> Undefined, extracting |-> Undefined, busy |-> FALSE,
    resetTimer |-> FALSE ]

\* the effect with the dependencies [image, textExtractionStatus]: when one
\* of them has changed the pending timer is cleared, and a new one is set for
\* the current image if the status is idle and no extraction is active
RunEffect(before, after) ==
  IF after.image = before.image /\ after.textExtractionStatus = before.textExtractionStatus
  THEN after
  ELSE [after EXCEPT !.timer = IF /\ Defined(after.image)
                                  /\ after.textExtractionStatus = "idle"
                                  /\ ~after.activeTextExtraction
                               THEN after.image ELSE Undefined]

\* instance numbers the mounted form; tasks are the calls of handleSearch and
\* handleUpload with the image and the text of their closure
InitPage ==
  /\ NoPipeline
  /\ fn = [ op |-> "page", activeTab |-> "upload", searchResults |-> <<>>,
            isLoading |-> FALSE, instance |-> 0, form |-> FreshForm, tasks |-> <<>> ]

\* handleTabChange(value); the content of the tab that is left is unmounted
\* and the content of the new tab is mounted
HandleTabChange(value) ==
  /\ value # fn.activeTab
  /\ fn.instance < MaxMounts
  /\ fn' = [fn EXCEPT !.activeTab = value,
                      !.searchResults = IF value # "search" THEN <<>> ELSE @,
                      !.form = FreshForm, !.instance = @ + 1]
  /\ UNCHANGED <<store, nextId, ops, search>>

\* handleFileUpload / handleFileChange up to reader.readAsDataURL(file)
HandleFileChange(file) ==
  /\ fn.activeTab \in {"upload", "search"}
  /\ ~Defined(fn.form.reading)
  /\ fn' = [fn EXCEPT !.form = RunEffect(@, [@ EXCEPT !.extractedText = Undefined,
                                                      !.textExtractionStatus = "idle",
                                                      !.reading = Some(file)])]
  /\ UNCHANGED <<store, nextId, ops, search>>

\* img.onload: setUploadedImage / setPreview
ImageLoaded ==
  /\ Defined(fn.form.reading)
  /\ fn' = [fn EXCEPT !.form = RunEffect(@, [@ EXCEPT !.image = fn.form.reading,
                                                      !.reading = Undefined])]
  /\ UNCHANGED <<store, nextId, ops, search>>

\* the 100 ms timer of the effect fires: extractText() up to its await
ExtractTextTimer ==
  /\ Defined(fn.form.timer)
  /\ fn' = [fn EXCEPT !.form = RunEffect(@, [@ EXCEPT !.textExtractionStatus = "processing",
                                                      !.activeTextExtraction = TRUE,
                                                      !.extracting = fn.form.timer,
                                                      !.timer = Undefined])]
  /\ UNCHANGED <<store, nextId, ops, search>>

\* extractText() after its await
ExtractTextResolves(result) ==
  /\ Defined(fn.form.extracting)
  /\ result \in ExtractTextOutcomes(fn.form.extracting[1])
  /\ fn' = [fn EXCEPT !.form =
              RunEffect(@, [@ EXCEPT !.extractedText = Some(result),
                                     !.textExtractionStatus =
                                        IF result.text # "" THEN "success" ELSE "error",
                                     !.activeTextExtraction = FALSE,
                                     !.extracting = Undefined])]
  /\ UNCHANGED <<store, nextId, ops, search>>

\* resetSearch
ResetSearch ==
  /\ fn.activeTab = "search"
  /\ fn' = [fn EXCEPT !.form = RunEffect(@, [@ EXCEPT !.image = Undefined,
                                                      !.extractedText = Undefined,
                                                      !.textExtractionStatus = "idle"]),
                      !.searchResults = <<>>]
  /\ UNCHANGED <<store, nextId, ops, search>>

\* handleSearch up to the first await that can change what it does: the
\* embedding is generated and the text of the closure is kept, or extracted
\* again when it is missing or below 0.7 and no extraction is processing
HandleSearch ==
  /\ fn.activeTab = "search"
  /\ Defined(fn.form.image)
  /\ ~fn.form.busy
  /\ Len(fn.tasks) < MaxTasks
  /\ LET finalTextContent == fn.form.extractedText
         again == /\ ~Defined(finalTextContent) \/ finalTextContent[1].confidence < 700
                  /\ fn.form.textExtractionStatus # "processing"
     IN fn' = [fn EXCEPT !.isLoading = TRUE, !.form.busy = TRUE,
                         !.tasks = Append(@, [ instance |-> fn.instance, kind |-> "search",
                                               image |-> fn.form.image[1],
                                               text |-> finalTextContent,
                                               pc |-> IF again THEN "extracting"
                                                               ELSE "searching",
                                               results |-> <<>> ])]
  /\ UNCHANGED <<store, nextId, ops, search>>

\* handleUpload up to its awaits: the text of the closure is kept unless it is
\* missing or an extraction is processing
HandleUpload ==
  /\ fn.activeTab = "upload"
  /\ Defined(fn.form.image)
  /\ ~fn.form.busy
  /\ Len(fn.tasks) < MaxTasks
  /\ LET textContent == fn.form.extractedText
         again == ~Defined(textContent) \/ fn.form.textExtractionStatus = "processing"
     IN fn' = [fn EXCEPT !.form.busy = TRUE,
                         !.tasks = Append(@, [ instance |-> fn.instance, kind |-> "upload",
                                               image |-> fn.form.image[1],
                                               text |-> textContent,
                                               pc |-> IF again THEN "extracting"
                                                               ELSE "storing",
                                               results |-> <<>> ])]
  /\ UNCHANGED <<store, nextId, ops, search>>

\* extractTextFromImage(image, {forceRefresh: true}) of handleSearch or
\* handleUpload resolves; handleSearch also calls setExtractedText
FinalTextResolves(t, result) ==
  /\ fn.tasks[t].pc = "extracting"
  /\ result \in ExtractTextOutcomes(fn.tasks[t].image)
  /\ LET task == fn.tasks[t]
         sets == task.kind = "search" /\ task.instance = fn.instance
     IN fn' = [fn EXCEPT !.tasks[t] = [@ EXCEPT !.text = Some(result),
                                                !.pc = IF task.kind = "search"
                                                       THEN "searching" ELSE "storing"],
                         !.form.extractedText = IF sets THEN Some(result) ELSE @]
  /\ UNCHANGED <<store, nextId, ops, search>>

\* searchImagesByEmbedding resolves: onSearchResults(results), then the
\* finally block; a rejection acts as the empty list
SearchResolves(t, results) ==
  /\ fn.tasks[t].pc = "searching"
  /\ fn' = [fn EXCEPT !.searchResults = results, !.isLoading = FALSE,
                      !.tasks[t] = [@ EXCEPT !.pc = "done", !.results = results],
                      !.form.busy = IF fn.tasks[t].instance = fn.instance THEN FALSE ELSE @]
  /\ UNCHANGED <<store, nextId, ops, search>>

\* storeImage resolves: the record holds the image and the text of the task;
\* the form resets itself 1500 ms later
StoreImageResolves(t) ==
  /\ fn.tasks[t].pc = "storing"
  /\ LET mounted == fn.tasks[t].instance = fn.instance
     IN fn' = [fn EXCEPT !.tasks[t].pc = "done",
                         !.form.busy = IF mounted THEN FALSE ELSE @,
                         !.form.resetTimer = IF mounted THEN TRUE ELSE @]
  /\ UNCHANGED <<store, nextId, ops, search>>

\* the reset 1500 ms after a successful upload
UploadResetTimer ==
  /\ fn.form.resetTimer
  /\ fn' = [fn EXCEPT !.form = RunEffect(@, [@ EXCEPT !.image = Undefined,
                                                      !.extractedText = Undefined,
                                                      !.textExtractionStatus = "idle",
                                                      !.resetTimer = FALSE])]
  /\ UNCHANGED <<store, nextId, ops, search>>

NextPage ==
  \/ \E value \in {"upload", "search", "gallery"} : HandleTabChange(value)
  \/ \E file \in FormImages : HandleFileChange(file)
  \/ ImageLoaded
  \/ ExtractTextTimer
  \/ \E result \in UNION { ExtractTextOutcomes(i) : i \in FormImages } :
       ExtractTextResolves(result)
  \/ ResetSearch
  \/ HandleSearch
  \/ HandleUpload
  \/ \E t \in 1..Len(fn.tasks) :
       \E result \in UNION { ExtractTextOutcomes(i) : i \in FormImages } :
         FinalTextResolves(t, result)
  \/ \E t \in 1..Len(fn.tasks), results \in SearchOutcomes : SearchResolves(t, results)
  \/ \E t \in 1..Len(fn.tasks) : StoreImageResolves(t)
  \/ UploadResetTimer

SpecPage == InitPage /\ [][NextPage]_vars

\* C27: whenever the active tab is not the search tab, searchResults is empty.
C27_ResultsOnlyOnSearchTab ==
  fn.activeTab # "search" => fn.searchResults = <<>>

\* C28: the text a search is run with, or an image is stored with, is missing
\* or is a result of extracting text from that same image.
C28_TextBelongsToImage ==
  \A t \in 1..Len(fn.tasks) :
    (fn.tasks[t].pc \in {"searching", "storing", "done"} /\ Defined(fn.tasks[t].text))
      => fn.tasks[t].text[1] \in ExtractTextOutcomes(fn.tasks[t].image)


----------------------------------------------------------------------------
(* The multiple-image list of the upload form *)

MaxAdded == 3

MaxRemovals == 1

MaxRetries == 1

\* an index of an array that was never written
ArrayHole == [ dataUrl |-> Undefined, textContent |-> Undefined, textStatus |-> "hole" ]

\* updated[index] = { ...updated[index], textContent, textStatus } on a copy
\* of prev; index counts from 0
WriteAt(prev, index, textContent, textStatus) ==
  LET old == IF index < Len(prev) THEN prev[index + 1] ELSE ArrayHole
      entry == [ dataUrl |-> old.dataUrl,
                 textContent |-> IF Defined(textContent) THEN textContent ELSE old.textContent,
                 textStatus |-> textStatus ]
  IN [ i \in 1..Max(Len(prev), index + 1) |->
         IF i = index + 1 THEN entry ELSE IF i <= Len(prev) THEN prev[i] ELSE ArrayHole ]

\* the effect on [multipleImages]: when some image is idle and none is
\* processing, processNextImage marks the first idle image and starts its
\* extraction; findIndex throws on a hole it meets first
ProcessNextImage(f) ==
  LET images == f.multipleImages
      idle == { i \in 1..Len(images) : images[i].textStatus = "idle" }
      index == (CHOOSE i \in idle : \A k \in idle : i <= k) - 1
  IN IF \/ idle = {}
        \/ \E i \in 1..Len(images) : images[i].textStatus = "processing"
        \/ \E i \in 1..index : images[i].textStatus = "hole"
     THEN f
     ELSE [f EXCEPT !.multipleImages = WriteAt(images, index, Undefined, "processing"),
                    !.runs = Append(@, [ index |-> index,
                                         dataUrl |-> images[index + 1].dataUrl[1] ])]

InitList ==
  /\ NoPipeline
  /\ fn = [ op |-> "multipleImages", multipleImages |-> <<>>, runs |-> <<>>,
            added |-> 0, removed |-> 0, retried |-> 0 ]

\* img.onload of handleMultipleFileChange
ImageAdded(dataUrl) ==
  /\ fn.added < MaxAdded
  /\ fn' = ProcessNextImage(
             [fn EXCEPT !.added = @ + 1,
                        !.multipleImages = Append(@, [ dataUrl |-> Some(dataUrl),
                                                       textContent |-> Undefined,
                                                       textStatus |-> "idle" ])])
  /\ UNCHANGED <<store, nextId, ops, search>>

\* the await of processNextImage or of retryTextExtraction returns
ExtractionResolves(r, result) ==
  /\ result \in ExtractTextOutcomes(fn.runs[r].dataUrl)
  /\ fn' = ProcessNextImage(
             [fn EXCEPT !.runs = [ i \in 1..(Len(@) - 1) |-> IF i < r THEN @[i] ELSE @[i + 1] ],
                        !.multipleImages =
                           WriteAt(@, fn.runs[r].index, Some(result),
                                   IF result.text # "" THEN "success" ELSE "error")])
  /\ UNCHANGED <<store, nextId, ops, search>>

\* removeImage(index)
RemoveImage(index) ==
  /\ fn.removed < MaxRemovals
  /\ index < Len(fn.multipleImages)
  /\ fn' = ProcessNextImage(
             [fn EXCEPT !.removed = @ + 1,
                        !.multipleImages =
                           [ i \in 1..(Len(@) - 1) |-> IF i <= index THEN @[i] ELSE @[i + 1] ]])
  /\ UNCHANGED <<store, nextId, ops, search>>

\* retryTextExtraction(index) up to its await; the badge that calls it is
\* shown on images whose status is error
RetryTextExtraction(index) ==
  /\ fn.retried < MaxRetries
  /\ index < Len(fn.multipleImages)
  /\ fn.multipleImages[index + 1].textStatus = "error"
  /\ Defined(fn.multipleImages[index + 1].dataUrl)
  /\ fn' = ProcessNextImage(
             [fn EXCEPT !.retried = @ + 1,
                        !.multipleImages = WriteAt(@, index, Undefined, "processing"),
                        !.runs = Append(@, [ index |-> index,
                                             dataUrl |-> fn.multipleImages[index + 1].dataUrl[1] ])])
  /\ UNCHANGED <<store, nextId, ops, search>>

NextList ==
  \/ \E dataUrl \in FormImages : ImageAdded(dataUrl)
  \/ \E r \in 1..Len(fn.runs) :
       \E result \in UNION { ExtractTextOutcomes(i) : i \in FormImages } :
         ExtractionResolves(r, result)
  \/ \E index \in 0..(MaxAdded - 1) : RemoveImage(index)
  \/ \E index \in 0..(MaxAdded - 1) : RetryTextExtraction(index)

SpecList == InitList /\ [][NextList]_vars

\* C29: a result held by an image of the list was extracted from that image,
\* and at most one image of the list is processing.
C29_ResultOnOwnImageOneAtATime ==
  /\ \A i \in 1..Len(fn.multipleImages) :
       Defined(fn.multipleImages[i].textContent) =>
         /\ Defined(fn.multipleImages[i].dataUrl)
         /\ fn.multipleImages[i].textContent[1]
              \in ExtractTextOutcomes(fn.multipleImages[i].dataUrl[1])
  /\ Cardinality({ i \in 1..Len(fn.multipleImages) :
                     fn.multipleImages[i].textStatus = "processing" }) <= 1


----------------------------------------------------------------------------
(* The camera of the search form and of the fallback component *)

MaxStarts == 2

\* the components that own a camera
CameraComponents == {"SearchForm", "CameraFallback"}

\* videoRef.current: the video element is rendered while the component is
\* mounted, the camera is active and no image is shown
VideoElement(f) == f.mounted /\ f.cameraActive /\ ~f.imageShown

\* streamRef.current.getTracks().forEach((track) => track.stop())
StopTracks(streams, stream) ==
  [ s \in 1..Len(streams) |-> IF s = stream THEN "stopped" ELSE streams[s] ]

\* setCameraActive(false), which a component that is no longer mounted ignores
Deactivate(f) == [f EXCEPT !.cameraActive = IF f.mounted THEN FALSE ELSE @]

\* stopCamera()
stopCamera(f) ==
  IF f.streamRef # 0
  THEN Deactivate([f EXCEPT !.streams = StopTracks(@, f.streamRef), !.streamRef = 0])
  ELSE f

\* streamRef is 0 for null, else the number of the stream in streams; calls
\* are the calls of startCamera, with the stream each has obtained
InitCamera ==
  /\ NoPipeline
  /\ \E component \in CameraComponents :
       fn = [ op |-> "camera", component |-> component, mounted |-> TRUE,
              cameraActive |-> FALSE, imageShown |-> FALSE, streamRef |-> 0,
              streams |-> <<>>, calls |-> <<>> ]

\* startCamera up to the 100 ms delay
StartCamera ==
  /\ fn.mounted /\ ~fn.cameraActive /\ ~fn.imageShown
  /\ Len(fn.calls) < MaxStarts
  /\ fn' = [fn EXCEPT !.cameraActive = TRUE,
                      !.calls = Append(@, [pc |-> "delay", stream |-> 0])]
  /\ UNCHANGED <<store, nextId, ops, search>>

\* after the delay: the first check of videoRef.current, then getUserMedia
DelayElapses(c) ==
  /\ fn.calls[c].pc = "delay"
  /\ fn' = IF VideoElement(fn)
           THEN [fn EXCEPT !.calls[c].pc = "requesting"]
           ELSE [Deactivate(fn) EXCEPT !.calls[c].pc = "done"]
  /\ UNCHANGED <<store, nextId, ops, search>>

\* getUserMedia resolves with a stream that has a video track: the second
\* check of videoRef.current, then the stream is attached
GetUserMediaResolves(c) ==
  /\ fn.calls[c].pc = "requesting"
  /\ LET stream == Len(fn.streams) + 1
         obtained == [fn EXCEPT !.streams = Append(@, "live"), !.calls[c].stream = stream]
     IN fn' = IF VideoElement(fn)
              THEN [obtained EXCEPT !.streamRef = stream, !.calls[c].pc = "attached"]
              ELSE [Deactivate(obtained) EXCEPT !.calls[c].pc = "done"]
  /\ UNCHANGED <<store, nextId, ops, search>>

\* every getUserMedia attempt rejects
GetUserMediaRejects(c) ==
  /\ fn.calls[c].pc = "requesting"
  /\ fn' = [Deactivate(fn) EXCEPT !.calls[c].pc = "done"]
  /\ UNCHANGED <<store, nextId, ops, search>>

\* onloadedmetadata: play() resolves
PlayResolves(c) ==
  /\ fn.calls[c].pc = "attached"
  /\ VideoElement(fn)
  /\ fn' = [fn EXCEPT !.calls[c].pc = "playing"]
  /\ UNCHANGED <<store, nextId, ops, search>>

\* onloadedmetadata: play() rejects, or the video element reports an error
PlayRejects(c) ==
  /\ fn.calls[c].pc = "attached"
  /\ VideoElement(fn)
  /\ fn' = [Deactivate([fn EXCEPT !.streams = StopTracks(@, fn.calls[c].stream)])
              EXCEPT !.calls[c].pc = "done"]
  /\ UNCHANGED <<store, nextId, ops, search>>

\* the Cancel button
CancelCamera ==
  /\ VideoElement(fn)
  /\ fn.streamRef # 0
  /\ fn' = stopCamera(fn)
  /\ UNCHANGED <<store, nextId, ops, search>>

\* captureImage on a video that is playing
CaptureImage(c) ==
  /\ VideoElement(fn)
  /\ fn.calls[c].pc = "playing"
  /\ fn.calls[c].stream = fn.streamRef
  /\ fn' = stopCamera([fn EXCEPT !.imageShown = (fn.component = "SearchForm")])
  /\ UNCHANGED <<store, nextId, ops, search>>

\* img.onload of handleFileUpload: the image replaces the camera view, then
\* if (cameraActive) stopCamera()
FileUploaded ==
  /\ fn.mounted /\ fn.component = "SearchForm" /\ ~fn.imageShown
  /\ fn' = IF fn.cameraActive THEN stopCamera([fn EXCEPT !.imageShown = TRUE])
                              ELSE [fn EXCEPT !.imageShown = TRUE]
  /\ UNCHANGED <<store, nextId, ops, search>>

\* resetSearch: the image is dropped
ImageDropped ==
  /\ fn.mounted /\ fn.imageShown
  /\ fn' = [fn EXCEPT !.imageShown = FALSE]
  /\ UNCHANGED <<store, nextId, ops, search>>

\* the component is unmounted; the search form's cleanup stops the stream of
\* streamRef, the fallback component has no cleanup
Unmount ==
  /\ fn.mounted
  /\ fn' = [fn EXCEPT !.mounted = FALSE,
                      !.streams = IF fn.component = "SearchForm" /\ fn.streamRef # 0
                                  THEN StopTracks(@, fn.streamRef) ELSE @]
  /\ UNCHANGED <<store, nextId, ops, search>>

NextCamera ==
  \/ StartCamera
  \/ \E c \in 1..Len(fn.calls) : DelayElapses(c)
  \/ \E c \in 1..Len(fn.calls) : GetUserMediaResolves(c)
  \/ \E c \in 1..Len(fn.calls) : GetUserMediaRejects(c)
  \/ \E c \in 1..Len(fn.calls) : PlayResolves(c)
  \/ \E c \in 1..Len(fn.calls) : PlayRejects(c)
  \/ CancelCamera
  \/ \E c \in 1..Len(fn.calls) : CaptureImage(c)
  \/ FileUploaded
  \/ ImageDropped
  \/ Unmount

SpecCamera == InitCamera /\ [][NextCamera]_vars

\* C30: once no startCamera call is pending and the camera view is inactive
\* (the component is unmounted or cameraActive is false), every stream that
\* getUserMedia has handed out is stopped.
C30_NoLiveStreamWhenInactive ==
  ( /\ \A c \in 1..Len(fn.calls) : fn.calls[c].pc \notin {"delay", "requesting"}
    /\ ~fn.mounted \/ ~fn.cameraActive )
  => \A s \in 1..Len(fn.streams) : fn.streams[s] = "stopped"

====
